---- MODULE Spec2Model ----
(***************************************************************************)
(* Model of the packet / port layer of the filterPipeline runtime:        *)
(*   src/src/packet.h   Packet (type-erased payload + timestamp)           *)
(*   src/src/port.h     Port   (bounded deque with monotonic admission)    *)
(* A client program holds a few Packet locals and one Port and applies    *)
(* the public operations of both classes in any order.                     *)
(***************************************************************************)
EXTENDS Integers, Sequences, FiniteSets, TLC

\* ---------------------------------------------------------------- bounds
MaxPackets == 4          \* timestamp-drawing constructions per behaviour
MaxCap     == 2          \* largest capacity the client's port is built with
MaxCalcs   == 3          \* largest number of calculators registered
MaxFeed    == 2          \* packets fed to a scheduler per behaviour
MaxPorts   == 4          \* most Port objects of a CalculatorContext client
MaxEntries == 2          \* most ports installed in that client's contexts

\* ------------------------------------------------------ program constants
kInvalidTimestamp == -11111111
kSecFactor        == 10000000
kDefaultQueueSize == 100

Slots  == {"a", "b"}      \* the client's Packet locals
Types  == {"int", "string"}
Values == {42}

NoHolder == [type |-> "null", value |-> 0]
Holders  == [type : Types, value : Values]

\* readings of CLOCK_MONOTONIC as <<tv_sec, tv_nsec>>, in the order the
\* clock can produce them
ClockReadings == << <<0, 999999999>>, <<2, 0>> >>
ClockIdx      == 1..Len(ClockReadings)

VARIABLES
    clock,          \* index of the latest clock reading taken
    lastTimestamp,  \* Packet::lastTimestamp
    nConstructed,   \* number of timestamps issued so far
    slot,           \* the client's Packet locals
    port,           \* the client's Port
    aborted,        \* the process was terminated
    accepted,       \* timestamps the port accepted, in order
    returned,       \* timestamps of the packets non-empty reads returned
    evictions,      \* number of times write ran its eviction step
    maxIssued,      \* largest timestamp currentTimestamp has returned so far
    last,           \* the operation that produced this state
    sched,          \* the Scheduler object
    heap,           \* the Port objects the scheduler and its contexts refer to
    pc,             \* where the thread is inside Scheduler::run
    frame,          \* what the current run() invocation has done so far
    cc,             \* the client's CalculatorContext objects, by variable name
    side            \* the client's shared map of side packets

schedVars == <<sched, heap, pc>>

vars == <<clock, lastTimestamp, nConstructed, slot, port, aborted,
          accepted, returned, evictions, maxIssued, last, sched, heap, pc,
          frame, cc, side>>

\* the contexts and the side-packet map of a client that uses
\* CalculatorContext directly
ctxVars == <<cc, side>>

\* ----------------------------------------------------------------- Packet
\* Packet::Packet()
EmptyPacket == [holder |-> NoHolder, timestamp |-> kInvalidTimestamp]

\* the conversion of one clock reading in Packet::currentTimestamp
ClockValue(r) == r[1] * kSecFactor + r[2]

\* Packet::currentTimestamp: the value returned for clock reading r when
\* lastTimestamp is lt
currentTimestamp_NoBump(r, lt) == ClockValue(r)

currentTimestamp(r, lt) ==
    LET current == ClockValue(r)
    IN  IF current <= lt THEN lt + 1 ELSE current

\* Packet::Packet(T) and Packet::Packet(unique_ptr<PacketHolder<T>>)
NewPacket(h, ts) == [holder |-> h, timestamp |-> ts]

\* Packet::isValid
isValid_TimestampOnly(p) == p.timestamp # kInvalidTimestamp

isValid(p) == p.timestamp # kInvalidTimestamp /\ p.holder # NoHolder

\* Packet::get<T>: the outcome of the call
get_Unchecked(p, T) ==
    IF p.holder = NoHolder THEN [kind |-> "empty", value |-> 0]
    ELSE [kind |-> "value", value |-> p.holder.value]

get(p, T) ==
    IF p.holder = NoHolder THEN [kind |-> "empty", value |-> 0]
    ELSE IF p.holder.type # T THEN [kind |-> "mismatch", value |-> 0]
    ELSE [kind |-> "value", value |-> p.holder.value]

\* Packet::Packet(Packet&&) and the body of Packet::operator=(Packet&&):
\* the pair <<destination, source>> after moving other
MovePacket_KeepSource(other) == <<other, other>>

MovePacket(other) ==
    << [holder |-> other.holder, timestamp |-> other.timestamp],
       [holder |-> NoHolder, timestamp |-> kInvalidTimestamp] >>

\* ------------------------------------------------------------------- Port
\* Port::Port(maxQueueSize)
NewPort(maxQueueSize) ==
    [dataQueue |-> <<>>, latestTimestamp |-> 0, MAX_QUEUE_SIZE |-> maxQueueSize]

\* Port::size
size(p) == Len(p.dataQueue)

\* outcomes of deque::pop_front on an empty deque (undefined behaviour):
\*   "wrapped"  the start index passes the finish index; the push_back that
\*              follows makes them equal again, so the deque reads as empty
\*   "abort"    the library's emptiness assertion ends the process
UBOutcomes == {"wrapped", "abort"}

\* Port::write: the result of write(packet) on port p; ub is the outcome
\* taken if pop_front runs on an empty deque
\*   port     the port afterwards        packet  the argument afterwards
\*   accepted the packet was taken over   evicted pop_front ran and returned
\*   abort    the process was terminated inside the call
Rejected(p, packet) ==
    [port |-> p, packet |-> packet, accepted |-> FALSE, evicted |-> FALSE,
     abort |-> FALSE]

write_NoTimestampCheck(p, packet, ub) ==
    LET full == Len(p.dataQueue) >= p.MAX_QUEUE_SIZE
        q    == IF full /\ p.dataQueue # <<>> THEN Tail(p.dataQueue)
                ELSE p.dataQueue
    IN  [port |-> [p EXCEPT !.dataQueue = Append(q, MovePacket(packet)[1]),
                            !.latestTimestamp = packet.timestamp],
         packet |-> MovePacket(packet)[2], accepted |-> TRUE,
         evicted |-> full, abort |-> FALSE]

write_NoEviction(p, packet, ub) ==
    IF packet.timestamp > p.latestTimestamp
    THEN [port |-> [p EXCEPT !.dataQueue = Append(@, MovePacket(packet)[1]),
                             !.latestTimestamp = packet.timestamp],
          packet |-> MovePacket(packet)[2], accepted |-> TRUE,
          evicted |-> FALSE, abort |-> FALSE]
    ELSE Rejected(p, packet)

write_EvictBack(p, packet, ub) ==
    IF packet.timestamp > p.latestTimestamp
    THEN LET full == Len(p.dataQueue) >= p.MAX_QUEUE_SIZE
             q    == IF full /\ p.dataQueue # <<>>
                     THEN SubSeq(p.dataQueue, 1, Len(p.dataQueue) - 1)
                     ELSE p.dataQueue
         IN  [port |-> [p EXCEPT !.dataQueue = Append(q, MovePacket(packet)[1]),
                                 !.latestTimestamp = packet.timestamp],
              packet |-> MovePacket(packet)[2], accepted |-> TRUE,
              evicted |-> full, abort |-> FALSE]
    ELSE Rejected(p, packet)

write_KeepLatest(p, packet, ub) ==
    IF packet.timestamp > p.latestTimestamp
    THEN LET full == Len(p.dataQueue) >= p.MAX_QUEUE_SIZE
             q    == IF full /\ p.dataQueue # <<>> THEN Tail(p.dataQueue)
                     ELSE p.dataQueue
         IN  [port |-> [p EXCEPT !.dataQueue = Append(q, MovePacket(packet)[1])],
              packet |-> MovePacket(packet)[2], accepted |-> TRUE,
              evicted |-> full, abort |-> FALSE]
    ELSE Rejected(p, packet)

write_EvictFirst(p, packet, ub) ==
    LET full == Len(p.dataQueue) >= p.MAX_QUEUE_SIZE
        q    == IF full /\ p.dataQueue # <<>> THEN Tail(p.dataQueue)
                ELSE p.dataQueue
    IN  IF packet.timestamp > p.latestTimestamp
        THEN [port |-> [p EXCEPT !.dataQueue = Append(q, MovePacket(packet)[1]),
                                 !.latestTimestamp = packet.timestamp],
              packet |-> MovePacket(packet)[2], accepted |-> TRUE,
              evicted |-> full, abort |-> FALSE]
        ELSE [port |-> [p EXCEPT !.dataQueue = q], packet |-> packet,
              accepted |-> FALSE, evicted |-> full, abort |-> FALSE]

write(p, packet, ub) ==
    IF packet.timestamp > p.latestTimestamp
    THEN IF Len(p.dataQueue) >= p.MAX_QUEUE_SIZE
         THEN IF p.dataQueue = <<>>
              THEN \* pop_front on an empty deque
                   IF ub = "abort"
                   THEN [port |-> p, packet |-> packet, accepted |-> FALSE,
                         evicted |-> FALSE, abort |-> TRUE]
                   ELSE [port |-> [p EXCEPT !.latestTimestamp = packet.timestamp],
                         packet |-> MovePacket(packet)[2], accepted |-> TRUE,
                         evicted |-> TRUE, abort |-> FALSE]
              ELSE [port |-> [p EXCEPT
                                !.dataQueue = Append(Tail(@), MovePacket(packet)[1]),
                                !.latestTimestamp = packet.timestamp],
                    packet |-> MovePacket(packet)[2], accepted |-> TRUE,
                    evicted |-> TRUE, abort |-> FALSE]
         ELSE [port |-> [p EXCEPT
                           !.dataQueue = Append(@, MovePacket(packet)[1]),
                           !.latestTimestamp = packet.timestamp],
               packet |-> MovePacket(packet)[2], accepted |-> TRUE,
               evicted |-> FALSE, abort |-> FALSE]
    ELSE Rejected(p, packet)

\* Port::read: the port afterwards and the packet returned
read_KeepFront(p) ==
    IF p.dataQueue = <<>> THEN [port |-> p, packet |-> EmptyPacket]
    ELSE [port |-> p, packet |-> MovePacket(Head(p.dataQueue))[1]]

read_Back(p) ==
    IF p.dataQueue = <<>> THEN [port |-> p, packet |-> EmptyPacket]
    ELSE [port |-> [p EXCEPT !.dataQueue = SubSeq(@, 1, Len(@) - 1)],
          packet |-> MovePacket(p.dataQueue[Len(p.dataQueue)])[1]]

read(p) ==
    IF p.dataQueue = <<>> THEN [port |-> p, packet |-> EmptyPacket]
    ELSE [port |-> [p EXCEPT !.dataQueue = Tail(@)],
          packet |-> MovePacket(Head(p.dataQueue))[1]]

\* Port::Port(Port&&): the pair <<new port, other afterwards>>; the new
\* port's MAX_QUEUE_SIZE comes from the default member initializer
MovePort(other) ==
    << [dataQueue |-> other.dataQueue,
        latestTimestamp |-> other.latestTimestamp,
        MAX_QUEUE_SIZE |-> kDefaultQueueSize],
       [other EXCEPT !.dataQueue = <<>>,
                     !.latestTimestamp = kInvalidTimestamp] >>

\* ------------------------------------------------------ CalculatorContext
kTagInput  == "kTagInput"
kTagOutput == "kTagOutput"
kCalc1Tag  == "C1Output"
kCalc2Tag  == "C2Output"

\* a shared_ptr<Port>: the Port it points to (an index into heap) and whether
\* it owns it (make_shared) or was made with the empty deleter (bind)
Handle(id, owns) == [id |-> id, owns |-> owns]

EmptyMap == [t \in {} |-> Handle(0, FALSE)]

\* CalculatorContext::CalculatorContext() and
\* CalculatorContext(const shared_ptr<map<string,Packet>>&): both port maps
\* are empty; sidePackets is a null pointer ("null") after the default
\* constructor and shares the map handed in ("shared") after the other
NewContext == [inputs |-> EmptyMap, outputs |-> EmptyMap, side |-> "null"]

NewContextWith == [NewContext EXCEPT !.side = "shared"]

\* the heap after a shared_ptr<Port> is destroyed
Release(hp, h) ==
    IF h.owns THEN [hp EXCEPT ![h.id].alive = FALSE] ELSE hp

\* CalculatorContext::addInputPort / addOutputPort on one of the two maps
addPort_Overwrite(map, hp, tag, newPort) ==
    [map  |-> (tag :> Handle(Len(hp) + 1, TRUE)) @@ map,
     heap |-> Append(IF tag \in DOMAIN map THEN Release(hp, map[tag]) ELSE hp,
                     [port |-> MovePort(newPort)[1], alive |-> TRUE])]

addPort(map, hp, tag, newPort) ==
    IF tag \in DOMAIN map
    THEN [map |-> map, heap |-> hp]
    ELSE [map  |-> (tag :> Handle(Len(hp) + 1, TRUE)) @@ map,
          heap |-> Append(hp, [port |-> MovePort(newPort)[1], alive |-> TRUE])]

\* CalculatorContext::bindInputPort / bindOutputPort on one of the two maps
bindPort_IfAbsent(map, hp, tag, id) ==
    IF tag \in DOMAIN map THEN [map |-> map, heap |-> hp]
    ELSE [map |-> (tag :> Handle(id, FALSE)) @@ map, heap |-> hp]

bindPort(map, hp, tag, id) ==
    [map  |-> (tag :> Handle(id, FALSE)) @@ map,
     heap |-> IF tag \in DOMAIN map THEN Release(hp, map[tag]) ELSE hp]

\* CalculatorContext::hasInput / hasOutput
hasPort(map, tag) == tag \in DOMAIN map

\* CalculatorContext::getInputPort / getOutputPort on one of the two maps:
\* the exception thrown, if any, the Port the reference returned designates,
\* and the map afterwards (find inserts nothing)
getPort_Subscript(map, tag) ==
    IF tag \in DOMAIN map
    THEN [exc |-> "none", id |-> map[tag].id, map |-> map]
    ELSE [exc |-> "none", id |-> 0,
          map |-> (tag :> Handle(0, FALSE)) @@ map]

getPort(map, tag) ==
    IF tag \in DOMAIN map
    THEN [exc |-> "none", id |-> map[tag].id, map |-> map]
    ELSE [exc |-> "CalculatorException", id |-> 0, map |-> map]

\* outcomes of sidePackets->find(tag) through a null sidePackets (undefined
\* behaviour): the process ends ("abort") or the lookup finds nothing
\* ("notfound")
NullOutcomes == {"abort", "notfound"}

\* CalculatorContext::getSidePacket with the shared map being sd; nl is the
\* outcome of the lookup through a null pointer
getSidePacket_Subscript(ctx, sd, tag, nl) ==
    IF ctx.side = "null"
    THEN [exc |-> "none", abort |-> TRUE, packet |-> EmptyPacket, side |-> sd]
    ELSE IF tag \notin DOMAIN sd
    THEN [exc |-> "none", abort |-> FALSE, packet |-> EmptyPacket,
          side |-> (tag :> EmptyPacket) @@ sd]
    ELSE [exc |-> "none", abort |-> FALSE, packet |-> sd[tag], side |-> sd]

getSidePacket(ctx, sd, tag, nl) ==
    IF ctx.side = "null"
    THEN IF nl = "abort"
         THEN [exc |-> "none", abort |-> TRUE, packet |-> EmptyPacket,
               side |-> sd]
         ELSE [exc |-> "CalculatorException", abort |-> FALSE,
               packet |-> EmptyPacket, side |-> sd]
    ELSE IF tag \notin DOMAIN sd
    THEN [exc |-> "CalculatorException", abort |-> FALSE,
          packet |-> EmptyPacket, side |-> sd]
    ELSE [exc |-> "none", abort |-> FALSE, packet |-> sd[tag], side |-> sd]

\* ~CalculatorContext: every handle of both maps is destroyed
DestroyContext(hp, ctx) ==
    [i \in DOMAIN hp |->
        IF \/ \E t \in DOMAIN ctx.inputs  : ctx.inputs[t]  = Handle(i, TRUE)
           \/ \E t \in DOMAIN ctx.outputs : ctx.outputs[t] = Handle(i, TRUE)
        THEN [hp[i] EXCEPT !.alive = FALSE]
        ELSE hp[i]]

\* ------------------------------------------------------------ calculators
kNumberOfPacketsToPush == 60

\* the two calculators of SchedulerTest: the ports registerContext adds, the
\* tag process reads and the tag it writes, and whether process increments
\* the int payload
\* sideTags are the tags process looks up with getSidePacket; the contexts
\* of these two calculators are default-constructed
Calculator1 ==
    [name |-> "Calculator1", addIn |-> <<>>, addOut |-> <<kCalc1Tag>>,
     inTag |-> kTagInput, outTag |-> kCalc1Tag, increments |-> TRUE,
     sideTags |-> <<>>, sideFirst |-> FALSE]

Calculator2 ==
    [name |-> "Calculator2", addIn |-> <<kCalc2Tag>>, addOut |-> <<kTagOutput>>,
     inTag |-> kCalc1Tag, outTag |-> kTagOutput, increments |-> FALSE,
     sideTags |-> <<>>, sideFirst |-> FALSE]

CalcKinds == {Calculator1, Calculator2}

\* the first two calculators of the stream filter: their contexts are
\* constructed with the side-packet map handed to registerContext; sideFirst
\* tells whether process looks the side packets up before it tests the
\* input port
kOutputPixel  == "ImagePixel"
kOutputDither == "ImageDither"
kPixelSize    == "pixelSize"
kPixelShape   == "pixeShape"
kRedLevels    == "redCount"
kGreenLevels  == "greenCount"
kBlueLevels   == "blueCount"
kSpread       == "spread"
kBayerLevel   == "bayerLevel"

PixelShapeCalculator ==
    [name |-> "PixelShapeCalculator", addIn |-> <<>>,
     addOut |-> <<kOutputPixel>>,
     inTag |-> kTagInput, outTag |-> kOutputPixel, increments |-> FALSE,
     sideTags |-> <<kPixelSize, kPixelShape>>, sideFirst |-> FALSE]

DitherCalculator ==
    [name |-> "DitherCalculator", addIn |-> <<>>,
     addOut |-> <<kOutputDither>>,
     inTag |-> kOutputPixel, outTag |-> kOutputDither, increments |-> FALSE,
     sideTags |-> <<kRedLevels, kGreenLevels, kBlueLevels, kSpread,
                    kBayerLevel>>,
     sideFirst |-> TRUE]

SideKinds == {PixelShapeCalculator, DitherCalculator}

\* the other two calculators of the stream filter
kOutputGrayscale  == "ImageGrayscale"
kOutputBanner     == "ImageBanner"
kTagBanner        == "ImageBanner"
kTagOverlayStartX == "OverlayStartX"
kTagOverlayStartY == "OverlayStartY"

GrayscaleCalculator ==
    [name |-> "GrayscaleCalculator", addIn |-> <<>>,
     addOut |-> <<kOutputGrayscale>>,
     inTag |-> kOutputDither, outTag |-> kOutputGrayscale,
     increments |-> FALSE, sideTags |-> <<>>, sideFirst |-> FALSE]

BannerCalculator ==
    [name |-> "BannerCalculator", addIn |-> <<>>,
     addOut |-> <<kOutputBanner>>,
     inTag |-> kOutputGrayscale, outTag |-> kOutputBanner,
     increments |-> FALSE,
     sideTags |-> <<kTagBanner, kTagOverlayStartX, kTagOverlayStartY>>,
     sideFirst |-> FALSE]

\* the calculators of the stream filter in the order main registers them
ExampleKinds == <<PixelShapeCalculator, DitherCalculator,
                  GrayscaleCalculator, BannerCalculator>>

IsExample(kind) == \E i \in 1..Len(ExampleKinds) : ExampleKinds[i] = kind

RECURSIVE AddPorts(_, _, _)
\* the addInputPort / addOutputPort calls of a registerContext, in order
AddPorts(map, hp, tags) ==
    IF tags = <<>> THEN [map |-> map, heap |-> hp]
    ELSE LET r == addPort(map, hp, Head(tags), NewPort(kDefaultQueueSize))
         IN  AddPorts(r.map, r.heap, Tail(tags))

\* Calculator1::registerContext / Calculator2::registerContext
registerContext(kind, hp) ==
    LET ins  == AddPorts(EmptyMap, hp, kind.addIn)
        outs == AddPorts(EmptyMap, ins.heap, kind.addOut)
    IN  [ctx  |-> [(IF IsExample(kind) THEN NewContextWith ELSE NewContext)
                      EXCEPT !.inputs = ins.map, !.outputs = outs.map],
         heap |-> outs.heap]

\* Calculator1::enter / Calculator2::enter: the assertions hold
enterOk(kind, ctx) ==
    IF kind.name = "Calculator1"
    THEN /\ hasPort(ctx.inputs, kTagInput)
         /\ DOMAIN ctx.inputs # {}
         /\ DOMAIN ctx.outputs # {}
    ELSE IF kind.name = "Calculator2"
    THEN hasPort(ctx.outputs, kTagOutput)
    ELSE TRUE

\* outcomes of using a Port whose storage was released (undefined behaviour):
\* the storage still holds the port ("stale") or the process ends ("abort")
DanglingOutcomes == {"stale", "abort"}

\* Calculator1::process / Calculator2::process on calculator object calc with
\* context ctx; ub is the outcome of an eviction from an empty deque, dg the
\* outcome of using a released port
\*   exc   "none", or the exception thrown      abort  the process ended
\*   packet   the packet handed to write, if any
\*   accepted the output port took it
process(calc, ctx, hp, ub, dg) ==
    LET kind  == calc.kind
        same  == [calc |-> calc, heap |-> hp, exc |-> "none", abort |-> FALSE,
                  packet |-> EmptyPacket, accepted |-> FALSE]
    IN  IF ~kind.increments /\ ~(calc.current_index < kNumberOfPacketsToPush)
        THEN same
        ELSE IF ~hasPort(ctx.inputs, kind.inTag)
        THEN [same EXCEPT !.exc = "CalculatorException"]
        ELSE LET inId == ctx.inputs[kind.inTag].id
             IN  IF ~hp[inId].alive /\ dg = "abort"
                 THEN [same EXCEPT !.abort = TRUE]
                 ELSE IF size(hp[inId].port) = 0 THEN same
                 ELSE IF ~(calc.current_index < kNumberOfPacketsToPush) THEN same
                 ELSE LET r   == read(hp[inId].port)
                          hp1 == [hp EXCEPT ![inId].port = r.port]
                          g   == get(r.packet, "int")
                          p   == IF kind.increments
                                 THEN [r.packet EXCEPT !.holder.value = @ + 1]
                                 ELSE r.packet
                      IN  IF kind.increments /\ g.kind # "value"
                          THEN [same EXCEPT !.heap = hp1, !.exc = "PacketException"]
                          ELSE IF ~hasPort(ctx.outputs, kind.outTag)
                          THEN [same EXCEPT !.heap = hp1,
                                            !.exc = "CalculatorException"]
                          ELSE LET outId == ctx.outputs[kind.outTag].id
                                   w     == write(hp1[outId].port, p, ub)
                               IN  IF (~hp1[outId].alive /\ dg = "abort") \/ w.abort
                                   THEN [same EXCEPT !.heap = hp1, !.abort = TRUE]
                                   ELSE [calc  |-> [calc EXCEPT !.current_index = @ + 1],
                                         heap  |-> [hp1 EXCEPT ![outId].port = w.port],
                                         exc   |-> "none",
                                         abort |-> FALSE,
                                         packet   |-> p,
                                         accepted |-> w.accepted]

RECURSIVE sidePacketsExc(_, _, _)
\* cc->getSidePacket(tag).get<int>() for the tags of tags in order, ctx
\* sharing the map sd: the first exception thrown, "none" if there is none,
\* and the map afterwards
sidePacketsExc(ctx, sd, tags) ==
    IF tags = <<>> THEN [exc |-> "none", side |-> sd]
    ELSE LET r == getSidePacket(ctx, sd, Head(tags), "notfound")
         IN  IF r.exc # "none" THEN [exc |-> r.exc, side |-> r.side]
             ELSE IF get(r.packet, "int").kind # "value"
             THEN [exc |-> "PacketException", side |-> r.side]
             ELSE sidePacketsExc(ctx, r.side, Tail(tags))

\* PixelShapeCalculator::process / DitherCalculator::process as far as the
\* extraction of the Image from the packet read: no packet of the client
\* holds an Image (Types), so get<Image> throws and the rest of process is
\* not reached; sd is the side-packet map, dg the outcome of using a
\* released port
processImage(calc, ctx, hp, sd, dg) ==
    LET kind  == calc.kind
        none  == [calc |-> calc, heap |-> hp, exc |-> "none", abort |-> FALSE,
                  packet |-> EmptyPacket, accepted |-> FALSE, side |-> sd]
        in    == getPort(ctx.inputs, kind.inTag)
        sides == IF kind.sideFirst
                 THEN sidePacketsExc(ctx, sd, kind.sideTags)
                 ELSE [exc |-> "none", side |-> sd]
        same  == [none EXCEPT !.side = sides.side]
    IN  IF in.exc # "none" THEN [none EXCEPT !.exc = in.exc]
        ELSE IF sides.exc # "none" THEN [same EXCEPT !.exc = sides.exc]
        ELSE IF ~hp[in.id].alive /\ dg = "abort" THEN [same EXCEPT !.abort = TRUE]
        ELSE IF size(hp[in.id].port) = 0 THEN same
        ELSE LET r   == read(hp[in.id].port)
                 hp1 == [hp EXCEPT ![in.id].port = r.port]
             IN  CASE get(r.packet, "Image").kind # "value" ->
                        [same EXCEPT !.heap = hp1, !.exc = "PacketException"]

\* -------------------------------------------------------------- Scheduler
kMicrosPerSec  == 1000000
kNanosPerMicro == 1000
FRAME_RATE     == 60
FRAME_RATE_MS  == kMicrosPerSec \div FRAME_RATE

\* the indices of Scheduler::inputPort and Scheduler::outputPort in heap
InputPortId  == 1
OutputPortId == 2

\* Scheduler::getCurrentTime for clock reading r
getCurrentTime(r) == r[1] * kMicrosPerSec + r[2] \div kNanosPerMicro

\* Scheduler::getCCByCalculatorName; every registered calculator has an entry
getCCByCalculatorName(s, calcName) == s.contexts[calcName]

\* Scheduler::calculateDeltaTime for clock reading r: the microseconds that
\* are then converted to float and divided by 1000000.f
calculateDeltaTime(r, lastTime) == getCurrentTime(r) - lastTime

\* Scheduler::Scheduler(); startTimeScheduler and numOfFrames are written by
\* run and read by no operation modelled here, so they are left out
NewScheduler ==
    [calculators        |-> <<>>,
     contexts           |-> [n \in {} |-> NewContext],
     running            |-> FALSE,
     current_index      |-> 0,
     startTimeFrame     |-> 0,
     callbackWrite      |-> FALSE,
     callbackRead       |-> FALSE]

NewHeap ==
    << [port |-> MovePort(NewPort(kDefaultQueueSize))[1], alive |-> TRUE],
       [port |-> MovePort(NewPort(kDefaultQueueSize))[1], alive |-> TRUE] >>

\* Scheduler::registerCalculator
registerCalculator(s, hp, kind) ==
    LET r == registerContext(kind, hp)
    IN  [sched |-> [s EXCEPT
                      !.calculators = Append(@, [kind |-> kind, current_index |-> 0]),
                      !.contexts = (kind.name :> r.ctx) @@ @],
         heap  |-> IF kind.name \in DOMAIN s.contexts
                   THEN DestroyContext(r.heap, s.contexts[kind.name])
                   ELSE r.heap]

RECURSIVE BindOutputs(_, _, _, _)
\* the inner loop of Scheduler::connectCalculators: every output port of the
\* current context is bound as an input of the next one under the same tag
BindOutputs(inputs, hp, outputs, tags) ==
    IF tags = {} THEN [map |-> inputs, heap |-> hp]
    ELSE LET t == CHOOSE x \in tags : TRUE
             r == bindPort(inputs, hp, t, outputs[t].id)
         IN  BindOutputs(r.map, r.heap, outputs, tags \ {t})

RECURSIVE ConnectPairs(_, _, _, _)
\* the outer loop of Scheduler::connectCalculators from pair (i, i + 1) on
ConnectPairs(ctxs, hp, calcs, i) ==
    IF i > Len(calcs) - 1 THEN [contexts |-> ctxs, heap |-> hp]
    ELSE LET cur == calcs[i].kind.name
             nxt == calcs[i + 1].kind.name
             r   == BindOutputs(ctxs[nxt].inputs, hp, ctxs[cur].outputs,
                                DOMAIN ctxs[cur].outputs)
         IN  ConnectPairs([ctxs EXCEPT ![nxt].inputs = r.map], r.heap,
                          calcs, i + 1)

\* Scheduler::connectCalculators on a scheduler with at least one calculator
connectCalculators(s, hp) ==
    LET p      == ConnectPairs(s.contexts, hp, s.calculators, 1)
        first  == s.calculators[1].kind.name
        lastN  == s.calculators[Len(s.calculators)].kind.name
        b1     == bindPort(p.contexts[first].inputs, p.heap, kTagInput,
                           InputPortId)
        c1     == [p.contexts EXCEPT ![first].inputs = b1.map]
        b2     == bindPort(c1[lastN].outputs, b1.heap, kTagOutput,
                           OutputPortId)
    IN  [sched |-> [s EXCEPT !.contexts = [c1 EXCEPT ![lastN].outputs = b2.map]],
         heap  |-> b2.heap]


\* the record of a run() invocation, kept for stating properties:
\*   prev    cursor value of the latest visit that completed, -1 if none
\*   visits  cursor values of the visits of the current invocation, up to
\*           one for each calculator, <<>> outside run()
\*   entry   the state run() found when it was entered, if the client keeps
\*           records; NoEntry otherwise and outside run()
NoEntry == [running |-> FALSE, startTimeFrame |-> -1, current_index |-> -1,
            input |-> <<>>, output |-> <<>>]

NoFrame == [prev |-> -1, visits |-> <<>>, entry |-> NoEntry, delta |-> 0]

\* the record once run() has returned or raised
Returned(f) == [f EXCEPT !.visits = <<>>, !.entry = NoEntry, !.delta = 0]

Entry(s, hp) ==
    [running        |-> s.running,
     startTimeFrame |-> s.startTimeFrame,
     current_index  |-> s.current_index,
     input          |-> hp[InputPortId].port.dataQueue,
     output         |-> hp[OutputPortId].port.dataQueue]

\* ------------------------------------------------------------ the client
NoOp == [op |-> "init", dst |-> "a", src |-> "a", T |-> "int",
         kind |-> "none", value |-> 0, accepted |-> FALSE, evicted |-> FALSE,
         calls |-> <<>>]

Init ==
    /\ clock = 1
    /\ lastTimestamp = 0
    /\ nConstructed = 0
    /\ slot = [s \in Slots |-> EmptyPacket]
    /\ port \in {NewPort(n) : n \in 0..MaxCap \cup {kDefaultQueueSize}}
    /\ aborted = FALSE
    /\ accepted = <<>>
    /\ returned = <<>>
    /\ evictions = 0
    /\ maxIssued = 0
    /\ last = NoOp
    /\ sched = NewScheduler
    /\ heap = NewHeap
    /\ pc = "idle"
    /\ frame = NoFrame
    /\ cc = [v \in {} |-> NewContext]
    /\ side = [t \in {} |-> EmptyPacket]

\* Packet p(value): Packet::Packet(const T), reading the clock at c
ConstructValue(s, h, c) ==
    /\ ~aborted
    /\ nConstructed < MaxPackets
    /\ LET ts == currentTimestamp(ClockReadings[c], lastTimestamp)
       IN  /\ slot' = [slot EXCEPT ![s] = NewPacket(h, ts)]
           /\ lastTimestamp' = ts
           /\ maxIssued' = IF ts > maxIssued THEN ts ELSE maxIssued
    /\ clock' = c
    /\ nConstructed' = nConstructed + 1
    /\ last' = [NoOp EXCEPT !.op = "construct", !.dst = s]
    /\ UNCHANGED <<port, aborted, accepted, returned, evictions,
                   sched, heap, pc, frame>>
    /\ UNCHANGED ctxVars

\* Packet p(std::move(holderPtr)): Packet::Packet(unique_ptr<PacketHolder<T>>);
\* the pointer handed over may be null
ConstructHolder(s, h, c) ==
    /\ ~aborted
    /\ nConstructed < MaxPackets
    /\ LET ts == currentTimestamp(ClockReadings[c], lastTimestamp)
       IN  /\ slot' = [slot EXCEPT ![s] = NewPacket(h, ts)]
           /\ lastTimestamp' = ts
           /\ maxIssued' = IF ts > maxIssued THEN ts ELSE maxIssued
    /\ clock' = c
    /\ nConstructed' = nConstructed + 1
    /\ last' = [NoOp EXCEPT !.op = "constructHolder", !.dst = s]
    /\ UNCHANGED <<port, aborted, accepted, returned, evictions,
                   sched, heap, pc, frame>>
    /\ UNCHANGED ctxVars

\* p = Packet(): Packet::Packet()
ConstructEmpty(s) ==
    /\ ~aborted
    /\ slot' = [slot EXCEPT ![s] = EmptyPacket]
    /\ last' = [NoOp EXCEPT !.op = "constructEmpty", !.dst = s]
    /\ UNCHANGED <<clock, lastTimestamp, nConstructed, port, aborted,
                   accepted, returned, evictions, maxIssued,
                   sched, heap, pc, frame>>
    /\ UNCHANGED ctxVars

\* Packet d(std::move(s)): Packet::Packet(Packet&&), d a new local
MoveConstruct(d, s) ==
    /\ ~aborted
    /\ d # s
    /\ slot' = [slot EXCEPT ![d] = MovePacket(slot[s])[1],
                            ![s] = MovePacket(slot[s])[2]]
    /\ last' = [NoOp EXCEPT !.op = "moveConstruct", !.dst = d, !.src = s]
    /\ UNCHANGED <<clock, lastTimestamp, nConstructed, port, aborted,
                   accepted, returned, evictions, maxIssued,
                   sched, heap, pc, frame>>
    /\ UNCHANGED ctxVars

\* d = std::move(s): Packet::operator=(Packet&&)
MoveAssign(d, s) ==
    /\ ~aborted
    /\ slot' = IF d # s
               THEN [slot EXCEPT ![d] = MovePacket(slot[s])[1],
                                 ![s] = MovePacket(slot[s])[2]]
               ELSE slot
    /\ last' = [NoOp EXCEPT !.op = "moveAssign", !.dst = d, !.src = s]
    /\ UNCHANGED <<clock, lastTimestamp, nConstructed, port, aborted,
                   accepted, returned, evictions, maxIssued,
                   sched, heap, pc, frame>>
    /\ UNCHANGED ctxVars

\* slot[s].get<T>()
Get(s, T) ==
    /\ ~aborted
    /\ last' = [NoOp EXCEPT !.op = "get", !.src = s, !.T = T,
                            !.kind = get(slot[s], T).kind,
                            !.value = get(slot[s], T).value]
    /\ UNCHANGED <<clock, lastTimestamp, nConstructed, slot, port, aborted,
                   accepted, returned, evictions, maxIssued,
                   sched, heap, pc, frame>>
    /\ UNCHANGED ctxVars

\* port.write(std::move(slot[s]))
PortWrite(s, ub) ==
    /\ ~aborted
    /\ LET w == write(port, slot[s], ub)
       IN  /\ port' = w.port
           /\ slot' = [slot EXCEPT ![s] = w.packet]
           /\ aborted' = w.abort
           /\ accepted' = IF w.accepted THEN Append(accepted, slot[s].timestamp)
                          ELSE accepted
           /\ evictions' = IF w.evicted THEN evictions + 1 ELSE evictions
           /\ last' = [NoOp EXCEPT !.op = "write", !.src = s,
                                   !.accepted = w.accepted,
                                   !.evicted = w.evicted]
    /\ UNCHANGED <<clock, lastTimestamp, nConstructed, returned, maxIssued,
                   sched, heap, pc, frame>>
    /\ UNCHANGED ctxVars

\* Packet slot[s] = port.read()
PortRead(s) ==
    /\ ~aborted
    /\ LET r == read(port)
       IN  /\ port' = r.port
           /\ slot' = [slot EXCEPT ![s] = r.packet]
           /\ returned' = IF port.dataQueue # <<>>
                          THEN Append(returned, r.packet.timestamp)
                          ELSE returned
           /\ last' = [NoOp EXCEPT !.op = "read", !.dst = s,
                                   !.kind = IF port.dataQueue = <<>>
                                            THEN "empty" ELSE "value"]
    /\ UNCHANGED <<clock, lastTimestamp, nConstructed, aborted, accepted,
                   evictions, maxIssued,
                   sched, heap, pc, frame>>
    /\ UNCHANGED ctxVars

\* a client that constructs packets, writes them to its port and reads them
\* back; the packets carry one payload type or none, and every construction
\* reads the clock at the same instant, so timestamps advance by the +1 step
PortHolders == {[type |-> "int", value |-> 42], NoHolder}

Next ==
    \/ \E s \in Slots : ConstructValue(s, [type |-> "int", value |-> 42], clock)
    \/ \E s \in Slots, h \in PortHolders : ConstructHolder(s, h, clock)
    \/ \E s \in Slots : ConstructEmpty(s)
    \/ \E s \in Slots, ub \in UBOutcomes : PortWrite(s, ub)
    \/ \E s \in Slots : PortRead(s)

Spec == Init /\ [][Next]_vars

\* a client that only constructs, moves and inspects packets, under every
\* order of clock readings
PacketInit ==
    /\ Init
    /\ port = NewPort(kDefaultQueueSize)

PacketNext ==
    \/ \E s \in Slots, h \in Holders, c \in ClockIdx :
          c >= clock /\ ConstructValue(s, h, c)
    \/ \E s \in Slots, h \in Holders \cup {NoHolder}, c \in ClockIdx :
          c >= clock /\ ConstructHolder(s, h, c)
    \/ \E s \in Slots : ConstructEmpty(s)
    \/ \E d, s \in Slots : MoveConstruct(d, s)
    \/ \E d, s \in Slots : MoveAssign(d, s)
    \/ \E s \in Slots, T \in Types : Get(s, T)

PacketSpec == PacketInit /\ [][PacketNext]_vars

\* ------------------------------------------------- the scheduler's client
clientVars == <<port, accepted, returned, evictions>>

\* calculators.empty()
empty(v) == Len(v) = 0

\* the client sets the pipeline up before it feeds or runs it
SetupOps == {"init", "registerCalculator", "connectCalculators",
             "registerInputCallback", "registerOutputCallback",
             "setSidePacket", "context"}

\* scheduler.registerCalculator(new Calculator1 / new Calculator2)
RegisterCalculator(kind) ==
    /\ ~aborted
    /\ last.op \in SetupOps
    /\ pc = "idle"
    /\ Len(sched.calculators) < MaxCalcs
    /\ LET r == registerCalculator(sched, heap, kind)
       IN  /\ sched' = r.sched
           /\ heap' = r.heap
    /\ last' = [NoOp EXCEPT !.op = "registerCalculator"]
    /\ UNCHANGED <<clock, lastTimestamp, nConstructed, slot, aborted,
                   maxIssued, pc, clientVars, frame>>
    /\ UNCHANGED ctxVars

\* scheduler.connectCalculators()
ConnectCalculators ==
    /\ ~aborted
    /\ last.op \in SetupOps
    /\ pc = "idle"
    /\ IF empty(sched.calculators)
       THEN /\ last' = [NoOp EXCEPT !.op = "connectCalculators",
                                    !.kind = "CalculatorException"]
            /\ UNCHANGED <<sched, heap>>
       ELSE /\ sched' = connectCalculators(sched, heap).sched
            /\ heap' = connectCalculators(sched, heap).heap
            /\ last' = [NoOp EXCEPT !.op = "connectCalculators"]
    /\ UNCHANGED <<clock, lastTimestamp, nConstructed, slot, aborted,
                   maxIssued, pc, clientVars, frame>>
    /\ UNCHANGED ctxVars

\* scheduler.registerInputCallback(cb, ctx)
RegisterInputCallback ==
    /\ ~aborted
    /\ last.op \in SetupOps
    /\ pc = "idle"
    /\ sched' = [sched EXCEPT !.callbackRead = TRUE]
    /\ last' = [NoOp EXCEPT !.op = "registerInputCallback"]
    /\ UNCHANGED <<clock, lastTimestamp, nConstructed, slot, aborted,
                   maxIssued, heap, pc, clientVars, frame>>
    /\ UNCHANGED ctxVars

\* scheduler.registerOutputCallback(cb)
RegisterOutputCallback ==
    /\ ~aborted
    /\ last.op \in SetupOps
    /\ pc = "idle"
    /\ sched' = [sched EXCEPT !.callbackWrite = TRUE]
    /\ last' = [NoOp EXCEPT !.op = "registerOutputCallback"]
    /\ UNCHANGED <<clock, lastTimestamp, nConstructed, slot, aborted,
                   maxIssued, heap, pc, clientVars, frame>>
    /\ UNCHANGED ctxVars

\* scheduler.writeToInputPort(std::move(Packet(value))): the packet is
\* constructed, reading the clock at c, and written to inputPort; with rec
\* the client records the timestamps inputPort accepted
WriteToInputPort(h, c, ub, rec) ==
    /\ ~aborted
    /\ pc = "idle"
    /\ nConstructed < MaxFeed
    /\ LET ts == currentTimestamp(ClockReadings[c], lastTimestamp)
           w  == write(heap[InputPortId].port, NewPacket(h, ts), ub)
       IN  /\ heap' = [heap EXCEPT ![InputPortId].port = w.port]
           /\ lastTimestamp' = ts
           /\ maxIssued' = IF ts > maxIssued THEN ts ELSE maxIssued
           /\ aborted' = w.abort
           /\ last' = [NoOp EXCEPT !.op = "writeToInputPort",
                                   !.accepted = w.accepted,
                                   !.evicted = w.evicted]
           /\ accepted' = IF rec /\ w.accepted THEN Append(accepted, ts)
                          ELSE accepted
    /\ clock' = c
    /\ nConstructed' = nConstructed + 1
    /\ UNCHANGED <<slot, sched, pc, port, returned, evictions, frame>>
    /\ UNCHANGED ctxVars

\* Scheduler::readFromOutputPort: the output port afterwards and the packet
\* returned; the local p is move-assigned from the result of read
readFromOutputPort_Peek(hp) ==
    [heap   |-> hp,
     packet |-> MovePacket(read(hp[OutputPortId].port).packet)[1]]

readFromOutputPort(hp) ==
    LET r == read(hp[OutputPortId].port)
    IN  [heap   |-> [hp EXCEPT ![OutputPortId].port = r.port],
         packet |-> MovePacket(r.packet)[1]]

\* Packet slot[s] = scheduler.readFromOutputPort(); with rec the client
\* records the timestamps of the valid packets it got
ReadFromOutputPort(s, rec) ==
    /\ ~aborted
    /\ pc = "idle"
    /\ LET r == readFromOutputPort(heap)
       IN  /\ heap' = r.heap
           /\ slot' = [slot EXCEPT ![s] = r.packet]
           /\ last' = [NoOp EXCEPT !.op = "readFromOutputPort", !.dst = s,
                                   !.kind = IF size(heap[OutputPortId].port) = 0
                                            THEN "empty" ELSE "value"]
           /\ returned' = IF rec /\ isValid(r.packet)
                          THEN Append(returned, r.packet.timestamp)
                          ELSE returned
    /\ UNCHANGED <<clock, lastTimestamp, nConstructed, aborted, maxIssued,
                   sched, pc, port, accepted, evictions, frame>>
    /\ UNCHANGED ctxVars

\* scheduler.stop(), called where code of the scheduler's user runs: between
\* run() calls, in the input callback, in a lifecycle call of a calculator,
\* or in the output callback
Stop ==
    /\ ~aborted
    /\ pc = "loop" => last.op = "after" /\ sched.callbackWrite
    /\ pc = "visit" => last.op \in {"input", "stop"}
    /\ sched' = [sched EXCEPT !.running = FALSE]
    /\ last' = [NoOp EXCEPT !.op = "stop"]
    /\ UNCHANGED <<clock, lastTimestamp, nConstructed, slot, aborted,
                   maxIssued, heap, pc, clientVars, frame>>
    /\ UNCHANGED ctxVars

\* what run() does to the scheduler before its loop, now being the clock
\* reading startTimeFrame gets: the exception it throws, if any, and the
\* scheduler afterwards
runEntry_SetFirst(s, now) ==
    IF empty(s.calculators)
    THEN [exc |-> "CalculatorException", sched |-> [s EXCEPT !.running = TRUE]]
    ELSE [exc   |-> "none",
          sched |-> [s EXCEPT !.running = TRUE, !.startTimeFrame = now]]

runEntry_Rewind(s, now) ==
    IF empty(s.calculators)
    THEN [exc |-> "CalculatorException", sched |-> s]
    ELSE [exc   |-> "none",
          sched |-> [s EXCEPT !.running = TRUE, !.startTimeFrame = now,
                              !.current_index = 0]]

runEntry(s, now) ==
    IF empty(s.calculators)
    THEN [exc |-> "CalculatorException", sched |-> s]
    ELSE [exc   |-> "none",
          sched |-> [s EXCEPT !.running = TRUE, !.startTimeFrame = now]]

\* scheduler.run() up to the loop test; the clock is read at c2 for delta
\* and at c3 for startTimeFrame; last.value is the local delta, which
\* frame.delta keeps for the calls of the loop when records are kept; rec
\* tells whether the client keeps records
RunBegin(c2, c3, rec) ==
    /\ ~aborted
    /\ pc = "idle"
    /\ clock <= c2 /\ c2 <= c3
    /\ sched' = runEntry(sched, getCurrentTime(ClockReadings[c3])).sched
    /\ IF runEntry(sched, getCurrentTime(ClockReadings[c3])).exc # "none"
       THEN /\ last' = [NoOp EXCEPT !.op = "run", !.kind = "CalculatorException"]
            /\ UNCHANGED <<pc, clock, frame>>
       ELSE /\ pc' = "loop"
            /\ clock' = c3
            /\ frame' = [frame EXCEPT
                          !.visits = <<>>,
                          !.entry = IF rec THEN Entry(sched, heap)
                                    ELSE NoEntry,
                          !.delta = IF rec
                                    THEN calculateDeltaTime(ClockReadings[c2],
                                                            sched.startTimeFrame)
                                    ELSE 0]
            /\ last' = [NoOp EXCEPT
                          !.op = "run",
                          !.value = calculateDeltaTime(ClockReadings[c2],
                                                       sched.startTimeFrame)]
    /\ UNCHANGED <<lastTimestamp, nConstructed, slot, aborted, maxIssued,
                   heap, clientVars>>
    /\ UNCHANGED ctxVars

\* the test of while (running)
loopTest_Always(s) == TRUE

loopTest(s) == s.running

\* while (running) is false: run returns
RunReturn ==
    /\ ~aborted
    /\ pc = "loop"
    /\ ~loopTest(sched)
    /\ pc' = "idle"
    /\ frame' = Returned(frame)
    /\ last' = [NoOp EXCEPT !.op = "return"]
    /\ UNCHANGED <<clock, lastTimestamp, nConstructed, slot, aborted,
                   maxIssued, sched, heap, clientVars>>
    /\ UNCHANGED ctxVars

\* packets an input callback can return: a packet built from a value, one
\* built from a null holder, or a default-constructed one
CallbackKinds == {"value", "null", "empty"}

\* the start of an iteration: the input callback, if registered, is called
\* and its packet written to inputPort
RunInput(kind, c, ub) ==
    /\ ~aborted
    /\ pc = "loop"
    /\ loopTest(sched)
    /\ clock <= c
    /\ IF ~sched.callbackRead
       THEN /\ pc' = "visit"
            /\ last' = [NoOp EXCEPT !.op = "input", !.kind = "nocallback"]
            /\ UNCHANGED <<clock, lastTimestamp, nConstructed, maxIssued,
                           heap, aborted>>
       ELSE LET fresh == kind # "empty"
                ts == currentTimestamp(ClockReadings[c], lastTimestamp)
                newPacket ==
                    IF kind = "value"
                    THEN NewPacket([type |-> "int", value |-> 42], ts)
                    ELSE IF kind = "null" THEN NewPacket(NoHolder, ts)
                    ELSE EmptyPacket
                w == write(heap[InputPortId].port, newPacket, ub)
            IN  /\ fresh => nConstructed < MaxFeed
                /\ ~fresh => c = clock
                /\ clock' = c
                /\ lastTimestamp' = IF fresh THEN ts ELSE lastTimestamp
                /\ maxIssued' = IF fresh /\ ts > maxIssued THEN ts ELSE maxIssued
                /\ nConstructed' = IF fresh THEN nConstructed + 1
                                   ELSE nConstructed
                /\ heap' = [heap EXCEPT ![InputPortId].port = w.port]
                /\ aborted' = w.abort
                /\ pc' = "visit"
                /\ last' = [NoOp EXCEPT !.op = "input", !.kind = kind,
                                        !.accepted = w.accepted,
                                        !.evicted = w.evicted]
    /\ UNCHANGED <<slot, sched, clientVars, frame>>
    /\ UNCHANGED ctxVars

\* currentCalc->enter, process, close, once the assertions of enter hold:
\* enter and close of the test calculators do nothing else, and run() has
\* no handler, so what process throws leaves run()
lifecycle_Swallow(calc, ctx, hp, ub, dg) ==
    [process(calc, ctx, hp, ub, dg) EXCEPT !.exc = "none"]

lifecycle(calc, ctx, hp, ub, dg) == process(calc, ctx, hp, ub, dg)

\* the calculator whose registerContext made the context stored under
\* calcName: contexts[calculator->getName()] is assigned at every
\* registration, so it is the last one registered with that name
Maker(s, calcName) ==
    CHOOSE i \in 1..Len(s.calculators) :
        /\ s.calculators[i].kind.name = calcName
        /\ \A j \in (i + 1)..Len(s.calculators) :
              s.calculators[j].kind.name # calcName

\* the calls one iteration makes on calculators: fn on the calculator at
\* position calc, handed the context made by the calculator at position
\* ctx and the value delta; entered tells that the assertions of enter
\* held, r is the outcome of process
lifecycleCalls(s, d, entered, r) ==
    LET i    == s.current_index + 1
        call(fn) == [fn |-> fn, calc |-> i,
                     ctx |-> Maker(s, s.calculators[i].kind.name),
                     delta |-> d]
    IN  IF ~entered THEN <<call("enter")>>
        ELSE IF r.abort \/ r.exc # "none"
        THEN <<call("enter"), call("process")>>
        ELSE <<call("enter"), call("process"), call("close")>>

\* enter, process and close of the calculator at the cursor
Visit(ub, dg) ==
    /\ ~aborted
    /\ pc = "visit"
    /\ LET calc == sched.calculators[sched.current_index + 1]
           ctx  == getCCByCalculatorName(sched, calc.kind.name)
           r    == IF IsExample(calc.kind)
                   THEN processImage(calc, ctx, heap, side, dg)
                   ELSE lifecycle(calc, ctx, heap, ub, dg)
       IN  IF ~enterOk(calc.kind, ctx)
           THEN /\ aborted' = TRUE
                /\ last' = [NoOp EXCEPT
                              !.op = "visit", !.kind = "assert",
                              !.calls = lifecycleCalls(sched, frame.delta,
                                                       FALSE, r)]
                /\ UNCHANGED <<sched, heap, pc, frame, side>>
           ELSE /\ aborted' = r.abort
                /\ heap' = r.heap
                /\ side' = IF IsExample(calc.kind) THEN r.side ELSE side
                /\ sched' = [sched EXCEPT
                               !.calculators[sched.current_index + 1] = r.calc]
                /\ pc' = IF r.abort THEN pc
                         ELSE IF r.exc # "none" THEN "idle" ELSE "after"
                /\ frame' = IF r.abort THEN frame
                             ELSE IF r.exc # "none" THEN Returned(frame)
                             ELSE [frame EXCEPT
                                     !.prev = sched.current_index,
                                     !.visits =
                                         IF Len(@) < Len(sched.calculators)
                                         THEN Append(@, sched.current_index)
                                         ELSE @]
                /\ last' = [NoOp EXCEPT
                              !.op = "visit", !.kind = r.exc,
                              !.calls = lifecycleCalls(sched, frame.delta,
                                                       TRUE, r)]
    /\ UNCHANGED <<clock, lastTimestamp, nConstructed, slot, maxIssued,
                   clientVars, cc>>

\* if (elapsedTimeFrame >= FRAME_RATE_MS) ... return
frameOver_Never(elapsedTimeFrame) == FALSE

frameOver(elapsedTimeFrame) == elapsedTimeFrame >= FRAME_RATE_MS

\* current_index = (current_index + 1) % calculators.size()
nextIndex_Stay(i, n) == i

nextIndex(i, n) == (i + 1) % n

\* the rest of the iteration: the elapsed time, read at c, the output
\* callback and the cursor
After(c) ==
    /\ ~aborted
    /\ pc = "after"
    /\ clock <= c
    /\ LET elapsedTimeFrame ==
               getCurrentTime(ClockReadings[c]) - sched.startTimeFrame
           r == readFromOutputPort(heap)
       IN  /\ heap' = IF sched.callbackWrite THEN r.heap ELSE heap
           /\ sched' = [sched EXCEPT !.current_index =
                           nextIndex(@, Len(sched.calculators))]
           /\ pc' = IF frameOver(elapsedTimeFrame) THEN "idle" ELSE "loop"
           /\ last' = [NoOp EXCEPT
                         !.op = "after",
                         !.kind = IF ~sched.callbackWrite THEN "nocallback"
                                  ELSE IF isValid(r.packet) THEN "valid"
                                  ELSE "invalid"]
    /\ clock' = c
    /\ frame' = IF pc' = "idle" THEN Returned(frame) ELSE frame
    /\ UNCHANGED <<lastTimestamp, nConstructed, slot, aborted, maxIssued,
                   clientVars>>
    /\ UNCHANGED ctxVars

\* a client that builds a pipeline of the test calculators, feeds it and
\* runs it
SchedInit ==
    /\ Init
    /\ port = NewPort(kDefaultQueueSize)

SchedNext ==
    \/ \E kind \in CalcKinds : RegisterCalculator(kind)
    \/ ConnectCalculators
    \/ RegisterInputCallback
    \/ RegisterOutputCallback
    \/ \E ub \in UBOutcomes :
          WriteToInputPort([type |-> "int", value |-> 42], clock, ub, FALSE)
    \/ ReadFromOutputPort("a", FALSE)
    \/ Stop
    \/ \E c2, c3 \in ClockIdx : RunBegin(c2, c3, FALSE)
    \/ RunReturn
    \/ \E kind \in CallbackKinds, c \in ClockIdx, ub \in UBOutcomes :
          RunInput(kind, c, ub)
    \/ \E ub \in UBOutcomes, dg \in DanglingOutcomes : Visit(ub, dg)
    \/ \E c \in ClockIdx : After(c)

SchedSpec == SchedInit /\ [][SchedNext]_vars

\* a client that keeps records, registers no callback and never calls
\* stop(), and whose run() calls go on for ever
PipeRun ==
    \/ \E c2, c3 \in ClockIdx : RunBegin(c2, c3, TRUE)
    \/ \E c \in ClockIdx, ub \in UBOutcomes : RunInput("empty", c, ub)
    \/ \E ub \in UBOutcomes, dg \in DanglingOutcomes : Visit(ub, dg)
    \/ \E c \in ClockIdx : After(c)

PipeNext ==
    \/ \E kind \in CalcKinds : RegisterCalculator(kind)
    \/ ConnectCalculators
    \/ \E ub \in UBOutcomes :
          WriteToInputPort([type |-> "int", value |-> 42], clock, ub, TRUE)
    \/ ReadFromOutputPort("a", TRUE)
    \/ PipeRun

PipeSpec == SchedInit /\ [][PipeNext]_vars /\ WF_vars(PipeRun)

\* --------------------------------------- the client of CalculatorContext
\* the client's variables of type CalculatorContext, the tags it uses for
\* ports and for side packets, and its two Port locals
CtxNames   == {"cc", "cc2"}
kTagImages == "images"
kTagColors == "colors"
PortTags   == {kTagImages, kTagColors}
kTagName1  == "number"
kTagName2  == "name"
SideTags   == {kTagName1, kTagName2}
Dirs       == {"inputs", "outputs"}

\* imagesPort and colorsPort are the first two Port objects of heap
ClientPorts == {1, 2}

\* the number of ports installed in the client's contexts
Entries(c) ==
    LET n(v) == Cardinality(DOMAIN c[v].inputs)
                  + Cardinality(DOMAIN c[v].outputs)
    IN  IF DOMAIN c = {} THEN 0
        ELSE IF DOMAIN c = {"cc"} THEN n("cc")
        ELSE n("cc") + n("cc2")

\* CalculatorContext v; or CalculatorContext v(sidePackets); cc is declared
\* before cc2
CtxConstruct(v, withSide) ==
    /\ ~aborted
    /\ pc = "idle"
    /\ v \notin DOMAIN cc
    /\ v = "cc2" => "cc" \in DOMAIN cc
    /\ cc' = (v :> IF withSide THEN NewContextWith ELSE NewContext) @@ cc
    /\ last' = [NoOp EXCEPT !.op = "context", !.dst = v]
    /\ UNCHANGED <<clock, lastTimestamp, nConstructed, slot, port, aborted,
                   accepted, returned, evictions, maxIssued, sched, heap, pc,
                   frame, side>>

\* (*sidePackets)[tag] = Packet(value), reading the clock at c
CtxSetSidePacket(tag, h, c) ==
    /\ ~aborted
    /\ pc = "idle"
    /\ DOMAIN cc = {}
    /\ nConstructed < MaxFeed
    /\ clock <= c
    /\ LET ts == currentTimestamp(ClockReadings[c], lastTimestamp)
       IN  /\ side' = (tag :> MovePacket(NewPacket(h, ts))[1]) @@ side
           /\ lastTimestamp' = ts
           /\ maxIssued' = IF ts > maxIssued THEN ts ELSE maxIssued
    /\ clock' = c
    /\ nConstructed' = nConstructed + 1
    /\ last' = [NoOp EXCEPT !.op = "setSidePacket", !.src = tag]
    /\ UNCHANGED <<slot, port, aborted, accepted, returned, evictions,
                   sched, heap, pc, frame, cc>>

\* imagesPort.write(std::move(Packet(value))) on the Port local id
CtxPortWrite(id, c, ub) ==
    /\ ~aborted
    /\ DOMAIN cc = {}
    /\ nConstructed < MaxFeed
    /\ clock <= c
    /\ LET ts == currentTimestamp(ClockReadings[c], lastTimestamp)
           w  == write(heap[id].port,
                       NewPacket([type |-> "int", value |-> 42], ts), ub)
       IN  /\ heap' = [heap EXCEPT ![id].port = w.port]
           /\ lastTimestamp' = ts
           /\ maxIssued' = IF ts > maxIssued THEN ts ELSE maxIssued
           /\ aborted' = w.abort
           /\ last' = [NoOp EXCEPT !.op = "portWrite", !.value = id,
                                   !.accepted = w.accepted,
                                   !.evicted = w.evicted]
    /\ clock' = c
    /\ nConstructed' = nConstructed + 1
    /\ UNCHANGED <<slot, port, accepted, returned, evictions, sched, pc,
                   frame, cc, side>>

\* v.addInputPort(tag, std::move(port)) / v.addOutputPort(tag,
\* std::move(port)) with the Port local id: when the port is installed the
\* local is left moved-from
CtxAddPort(v, dir, tag, id) ==
    /\ ~aborted
    /\ v \in DOMAIN cc
    /\ Len(heap) < MaxPorts
    /\ Entries(cc) < MaxEntries \/ tag \in DOMAIN cc[v][dir]
    /\ LET r == addPort(cc[v][dir], heap, tag, heap[id].port)
       IN  /\ cc' = [cc EXCEPT ![v][dir] = r.map]
           /\ heap' = IF Len(r.heap) = Len(heap) THEN r.heap
                      ELSE [r.heap EXCEPT
                              ![id].port = MovePort(heap[id].port)[2]]
    /\ last' = [NoOp EXCEPT !.op = "addPort", !.dst = v, !.T = dir,
                            !.src = tag, !.value = id]
    /\ UNCHANGED <<clock, lastTimestamp, nConstructed, slot, port, aborted,
                   accepted, returned, evictions, maxIssued, sched, pc,
                   frame, side>>

\* v.bindInputPort(tag, port) / v.bindOutputPort(tag, port) with the Port
\* object id, a local of the client or a port got from a context
CtxBindPort(v, dir, tag, id) ==
    /\ ~aborted
    /\ v \in DOMAIN cc
    /\ heap[id].alive
    /\ Entries(cc) < MaxEntries \/ tag \in DOMAIN cc[v][dir]
    /\ LET r == bindPort(cc[v][dir], heap, tag, id)
       IN  /\ cc' = [cc EXCEPT ![v][dir] = r.map]
           /\ heap' = r.heap
    /\ last' = [NoOp EXCEPT !.op = "bindPort", !.dst = v, !.T = dir,
                            !.src = tag, !.value = id]
    /\ UNCHANGED <<clock, lastTimestamp, nConstructed, slot, port, aborted,
                   accepted, returned, evictions, maxIssued, sched, pc,
                   frame, side>>

\* v.getInputPort(tag) / v.getOutputPort(tag), inside try ... catch
CtxGetPort(v, dir, tag) ==
    /\ ~aborted
    /\ v \in DOMAIN cc
    /\ cc' = [cc EXCEPT ![v][dir] = getPort(cc[v][dir], tag).map]
    /\ last' = [NoOp EXCEPT !.op = "getPort", !.dst = v, !.T = dir,
                            !.src = tag,
                            !.kind = getPort(cc[v][dir], tag).exc,
                            !.value = getPort(cc[v][dir], tag).id]
    /\ UNCHANGED <<clock, lastTimestamp, nConstructed, slot, port, aborted,
                   accepted, returned, evictions, maxIssued, sched, heap, pc,
                   frame, side>>

\* const Packet& p = v.getSidePacket(tag), inside try ... catch; the record
\* of the call shows the packet the reference designates: the type of its
\* payload and its timestamp
CtxGetSidePacket(v, tag, nl) ==
    /\ ~aborted
    /\ pc = "idle"
    /\ v \in DOMAIN cc
    /\ LET r == getSidePacket(cc[v], side, tag, nl)
       IN  /\ aborted' = r.abort
           /\ last' = [NoOp EXCEPT !.op = "getSidePacket", !.dst = v,
                                   !.src = tag, !.kind = r.exc,
                                   !.T = r.packet.holder.type,
                                   !.value = r.packet.timestamp]
           /\ side' = r.side
    /\ UNCHANGED <<clock, lastTimestamp, nConstructed, slot, port, accepted,
                   returned, evictions, maxIssued, sched, heap, pc, frame,
                   cc>>

CtxInit ==
    /\ Init
    /\ port = NewPort(kDefaultQueueSize)

CtxNext ==
    \/ CtxConstruct("cc", FALSE)
    \/ \E id \in ClientPorts, ub \in UBOutcomes : CtxPortWrite(id, clock, ub)
    \/ \E dir \in Dirs, tag \in PortTags, id \in ClientPorts :
          CtxAddPort("cc", dir, tag, id)
    \/ \E dir \in Dirs, tag \in PortTags, id \in 1..Len(heap) :
          CtxBindPort("cc", dir, tag, id)
    \/ \E dir \in Dirs, tag \in PortTags : CtxGetPort("cc", dir, tag)

CtxSpec == CtxInit /\ [][CtxNext]_vars

\* v.getInputPort(tag).write(Packet(42)) / v.getOutputPort(tag).write(...),
\* inside try ... catch: a write to the Port the context holds under tag
CtxInstalledWrite(v, dir, tag, c, ub) ==
    /\ ~aborted
    /\ v \in DOMAIN cc
    /\ nConstructed < MaxPackets
    /\ clock <= c
    /\ LET g  == getPort(cc[v][dir], tag)
           ts == currentTimestamp(ClockReadings[c], lastTimestamp)
           w  == write(heap[g.id].port,
                       NewPacket([type |-> "int", value |-> 42], ts), ub)
       IN  /\ lastTimestamp' = ts
           /\ maxIssued' = IF ts > maxIssued THEN ts ELSE maxIssued
           /\ IF g.exc # "none"
              THEN /\ UNCHANGED <<heap, aborted>>
                   /\ last' = [NoOp EXCEPT !.op = "installedWrite", !.dst = v,
                                           !.T = dir, !.src = tag,
                                           !.kind = g.exc]
              ELSE /\ heap' = [heap EXCEPT ![g.id].port = w.port]
                   /\ aborted' = w.abort
                   /\ last' = [NoOp EXCEPT !.op = "installedWrite", !.dst = v,
                                           !.T = dir, !.src = tag,
                                           !.value = g.id,
                                           !.accepted = w.accepted,
                                           !.evicted = w.evicted]
    /\ clock' = c
    /\ nConstructed' = nConstructed + 1
    /\ UNCHANGED <<slot, port, accepted, returned, evictions, sched, pc,
                   frame, cc, side>>

\* Packet s = v.getInputPort(tag).read() / v.getOutputPort(tag).read(),
\* inside try ... catch
CtxInstalledRead(v, dir, tag, s) ==
    /\ ~aborted
    /\ v \in DOMAIN cc
    /\ LET g == getPort(cc[v][dir], tag)
       IN  IF g.exc # "none"
           THEN /\ UNCHANGED <<heap, slot>>
                /\ last' = [NoOp EXCEPT !.op = "installedRead", !.dst = v,
                                        !.T = dir, !.src = tag, !.kind = g.exc]
           ELSE /\ heap' = [heap EXCEPT ![g.id].port = read(@).port]
                /\ slot' = [slot EXCEPT ![s] = read(heap[g.id].port).packet]
                /\ last' = [NoOp EXCEPT !.op = "installedRead", !.dst = v,
                                        !.T = dir, !.src = tag, !.value = g.id]
    /\ UNCHANGED <<clock, lastTimestamp, nConstructed, port, aborted,
                   accepted, returned, evictions, maxIssued, sched, pc,
                   frame, cc, side>>

\* a client with one local, Port imagesPort(n), that may write to it,
\* constructs a context, installs the local in it and then writes to and
\* reads from the installed ports
LocalPort == 1

InstallInit ==
    /\ clock = 1
    /\ lastTimestamp = 0
    /\ nConstructed = 0
    /\ slot = [s \in Slots |-> EmptyPacket]
    /\ port = NewPort(kDefaultQueueSize)
    /\ aborted = FALSE
    /\ accepted = <<>>
    /\ returned = <<>>
    /\ evictions = 0
    /\ maxIssued = 0
    /\ last = NoOp
    /\ sched = NewScheduler
    /\ heap \in {<< [port |-> NewPort(n), alive |-> TRUE] >> : n \in 0..MaxCap}
    /\ pc = "idle"
    /\ frame = NoFrame
    /\ cc = [v \in {} |-> NewContext]
    /\ side = [t \in {} |-> EmptyPacket]

InstallNext ==
    \/ CtxConstruct("cc", FALSE)
    \/ \E ub \in UBOutcomes : CtxPortWrite(LocalPort, clock, ub)
    \/ \E dir \in Dirs, tag \in PortTags :
          CtxAddPort("cc", dir, tag, LocalPort)
    \/ \E tag \in PortTags, c \in clock..Len(ClockReadings), ub \in UBOutcomes :
          CtxInstalledWrite("cc", "inputs", tag, c, ub)
    \/ \E tag \in PortTags : CtxInstalledRead("cc", "inputs", tag, "a")

InstallSpec == InstallInit /\ [][InstallNext]_vars

\* a client that fills the side-packet map, constructs contexts on it or
\* without it, hands it to the scheduler with the calculators of the stream
\* filter, and feeds and runs the pipeline
SideKeys == {kTagName1, kRedLevels}

SideNext ==
    \/ \E tag \in SideKeys, T \in Types :
          CtxSetSidePacket(tag, [type |-> T, value |-> 42], clock)
    \/ \E withSide \in BOOLEAN :
          empty(sched.calculators) /\ CtxConstruct("cc", withSide)
    \/ empty(sched.calculators) /\ CtxConstruct("cc2", TRUE)
    \/ \E v \in CtxNames, tag \in SideKeys, nl \in NullOutcomes :
          CtxGetSidePacket(v, tag, nl)
    \/ \E kind \in SideKinds :
          /\ \A i \in 1..Len(sched.calculators) :
                sched.calculators[i].kind # kind
          /\ RegisterCalculator(kind)
    \/ ConnectCalculators
    \/ \E ub \in UBOutcomes :
          WriteToInputPort([type |-> "int", value |-> 42], clock, ub, FALSE)
    \/ ReadFromOutputPort("b", FALSE)
    \/ Stop
    \/ RunReturn
    \/ PipeRun

SideSpec == SchedInit /\ [][SideNext]_vars

\* ------------------------------------------------- the stream filter
\* main of the stream filter: the side packets are entered with
\* (*sidePackets)[tag] = Packet(value), the four calculators are registered
\* with the map and connected, and run() is called for ever. The side
\* packets of the banner calculator are left out: it looks them up only
\* once it holds an Image.
RECURSIVE RegisterAll(_, _, _)
RegisterAll(s, hp, kinds) ==
    IF kinds = <<>> THEN [sched |-> s, heap |-> hp]
    ELSE LET r == registerCalculator(s, hp, Head(kinds))
         IN  RegisterAll(r.sched, r.heap, Tail(kinds))

\* the pipeline after scheduler.connectCalculators()
FilterPipeline ==
    LET r == RegisterAll(NewScheduler, NewHeap, ExampleKinds)
    IN  connectCalculators(r.sched, r.heap)

\* the entries main makes, in its order, with the type of each value
FullEntries ==
    << [tag |-> kRedLevels, type |-> "int"],
       [tag |-> kGreenLevels, type |-> "int"],
       [tag |-> kBlueLevels, type |-> "int"],
       [tag |-> kSpread, type |-> "int"],
       [tag |-> kBayerLevel, type |-> "int"],
       [tag |-> kPixelSize, type |-> "int"],
       [tag |-> kPixelShape, type |-> "int"] >>

\* the entries of a client that makes them all, leaves one out, gives one a
\* value of another type, or makes none
Without(k) == [i \in 1..(Len(FullEntries) - 1) |->
                  IF i < k THEN FullEntries[i] ELSE FullEntries[i + 1]]

EntryLists ==
    {FullEntries, <<>>}
       \cup {Without(k) : k \in 1..Len(FullEntries)}
       \cup {[FullEntries EXCEPT ![k].type = "string"] :
                 k \in 1..Len(FullEntries)}

RECURSIVE BuildSide(_, _, _)
\* the map and lastTimestamp after the entries es have been made, every
\* Packet constructor reading the first clock reading
BuildSide(es, sd, lt) ==
    IF es = <<>> THEN [side |-> sd, lastTimestamp |-> lt]
    ELSE LET ts == currentTimestamp(ClockReadings[1], lt)
             pk == MovePacket(NewPacket([type |-> Head(es).type, value |-> 42],
                                        ts))[1]
         IN  BuildSide(Tail(es), (Head(es).tag :> pk) @@ sd, ts)

\* main up to the loop, with or without one
\* scheduler.writeToInputPort(Packet(42)) before it
FilterInit ==
    \E es \in EntryLists, fed \in BOOLEAN :
       LET b  == BuildSide(es, [t \in {} |-> EmptyPacket], 0)
           ts == currentTimestamp(ClockReadings[1], b.lastTimestamp)
           w  == write(FilterPipeline.heap[InputPortId].port,
                       NewPacket([type |-> "int", value |-> 42], ts),
                       "wrapped")
       IN  /\ clock = 1
           /\ side = b.side
           /\ lastTimestamp = IF fed THEN ts ELSE b.lastTimestamp
           /\ maxIssued = lastTimestamp
           /\ nConstructed = Len(es) + IF fed THEN 1 ELSE 0
           /\ heap = IF fed
                     THEN [FilterPipeline.heap EXCEPT ![InputPortId].port = w.port]
                     ELSE FilterPipeline.heap
           /\ sched = FilterPipeline.sched
           /\ accepted = IF fed THEN <<ts>> ELSE <<>>
           /\ slot = [s \in Slots |-> EmptyPacket]
           /\ port = NewPort(kDefaultQueueSize)
           /\ aborted = FALSE
           /\ returned = <<>>
           /\ evictions = 0
           /\ last = NoOp
           /\ pc = "idle"
           /\ frame = NoFrame
           /\ cc = [v \in {} |-> NewContext]

FilterSpec == FilterInit /\ [][PipeRun]_vars

\* ------------------------------------------------------------- properties
StrictlyIncreasing(seq) ==
    \A i \in 1..Len(seq) : \A j \in 1..Len(seq) : i < j => seq[i] < seq[j]

Timestamps(queue) == [i \in 1..Len(queue) |-> queue[i].timestamp]

RECURSIVE IsSubSeq(_, _)
\* a is b with some elements left out, order kept
IsSubSeq(a, b) ==
    IF a = <<>> THEN TRUE
    ELSE IF b = <<>> THEN FALSE
    ELSE IF Head(a) = Head(b) THEN IsSubSeq(Tail(a), Tail(b))
    ELSE IsSubSeq(a, Tail(b))

IsConstructStep == last'.op \in {"construct", "constructHolder"} /\ nConstructed' # nConstructed

\* C1: every packet built by a timestamp-drawing constructor gets a timestamp
\* strictly greater than every timestamp issued before it, whatever the clock
\* reads (also when the converted reading is equal to or below an earlier one).
C1_TimestampMonotonic ==
    [][IsConstructStep =>
          /\ slot'[last'.dst].timestamp > maxIssued
          /\ slot'[last'.dst].timestamp > lastTimestamp
          /\ lastTimestamp' = slot'[last'.dst].timestamp]_vars

\* a construction whose converted clock reading lies below an earlier one
\* that was issued
C1_Witness ==
    /\ last.op = "construct"
    /\ nConstructed >= 2
    /\ \E c \in 1..(clock - 1) :
          /\ ClockValue(ClockReadings[c]) > ClockValue(ClockReadings[clock])
          /\ lastTimestamp > ClockValue(ClockReadings[c]) + 1
    /\ slot[last.dst].timestamp = lastTimestamp

\* a write step of the client whose call returned
IsWriteStep == last'.op = "write" /\ ~aborted'

\* C2: write(p) accepts p exactly when p.timestamp > latestAcceptedTimestamp at
\* the call (an accepted packet leaves the caller and its timestamp becomes the
\* port's latest; a rejected one changes nothing), so the timestamps a port
\* accepts are strictly increasing.
C2_MonotonicAdmission ==
    [][IsWriteStep =>
          LET pk == slot[last'.src]
              ok == pk.timestamp > port.latestTimestamp
          IN  /\ ok <=> Len(accepted') = Len(accepted) + 1
              /\ ok => /\ port'.latestTimestamp = pk.timestamp
                       /\ slot'[last'.src] = EmptyPacket
              /\ ~ok => port' = port /\ slot' = slot /\ accepted' = accepted
              /\ StrictlyIncreasing(accepted')]_vars

\* a packet older than an accepted one was offered and rejected
C2_Witness ==
    /\ last.op = "write"
    /\ ~last.accepted
    /\ Len(accepted) >= 1
    /\ slot[last.src].timestamp > 0
    /\ slot[last.src].timestamp < port.latestTimestamp

\* C3: the number of queued packets never exceeds the capacity the port was
\* constructed with.
C3_PortBound == size(port) <= port.MAX_QUEUE_SIZE

\* a write to a full port has just run
C3_Witness ==
    /\ last.op = "write"
    /\ last.accepted
    /\ last.evicted
    /\ port.MAX_QUEUE_SIZE >= 1
    /\ size(port) = port.MAX_QUEUE_SIZE

\* C4: the queue is in strictly increasing timestamp order, front to back, and
\* the packets successive non-empty reads return have strictly increasing
\* timestamps, evictions in between included.
C4_QueueOrdered ==
    /\ StrictlyIncreasing(Timestamps(port.dataQueue))
    /\ StrictlyIncreasing(returned)

\* two reads with an evicted packet between them
C4_Witness ==
    /\ last.op = "read"
    /\ Len(returned) >= 2
    /\ evictions >= 1
    /\ \E i \in 1..Len(accepted) :
          /\ accepted[i] > returned[Len(returned) - 1]
          /\ accepted[i] < returned[Len(returned)]

\* C5 as stated: on a drained port the timestamps read equal the timestamps
\* accepted. (Stated for ports of capacity 1 and more, where every lost packet
\* was discarded by oldest-drop.)
C5_Original ==
    (port.MAX_QUEUE_SIZE >= 1 /\ port.dataQueue = <<>>) => returned = accepted

\* C5 amended: the timestamps read are the timestamps accepted with those
\* discarded by oldest-drop left out: always an order-preserving subsequence
\* of the accepted ones; on a drained port shorter by exactly the number of
\* writes that ran the eviction step, hence equal when none did.
C5_ReadsAreAcceptedMinusEvicted ==
    /\ IsSubSeq(returned, accepted)
    /\ port.dataQueue = <<>> => Len(returned) = Len(accepted) - evictions
    /\ (port.dataQueue = <<>> /\ evictions = 0) => returned = accepted

\* a drained port that returned several packets after an eviction
C5_Witness ==
    /\ last.op = "read"
    /\ port.dataQueue = <<>>
    /\ evictions >= 1
    /\ Len(returned) >= 2
    /\ Len(accepted) > Len(returned)

IsMoveStep == last'.op \in {"moveConstruct", "moveAssign"} /\ last'.dst # last'.src

\* C8: after moving packet a into a distinct packet b, a is invalid (null
\* payload, sentinel timestamp) and b holds the payload and timestamp a had.
C8_MoveInvalidates ==
    [][IsMoveStep =>
          /\ ~isValid(slot'[last'.src])
          /\ slot'[last'.src].holder = NoHolder
          /\ slot'[last'.src].timestamp = kInvalidTimestamp
          /\ slot'[last'.dst].holder = slot[last'.src].holder
          /\ slot'[last'.dst].timestamp = slot[last'.src].timestamp]_vars

\* a valid packet has just been moved
C8_Witness ==
    /\ last.op \in {"moveConstruct", "moveAssign"}
    /\ last.dst # last.src
    /\ isValid(slot[last.dst])
    /\ ~isValid(slot[last.src])

\* C9: get<T> fails with the empty error on every packet that is not valid,
\* with the type-mismatch error on a packet built with another type, returns
\* the stored value on a valid packet built with T, and changes no packet.
C9_TypeSafety ==
    [][last'.op = "get" =>
          LET pk == slot[last'.src]
          IN  /\ slot' = slot
              /\ ~isValid(pk) => last'.kind = "empty"
              /\ (pk.holder # NoHolder /\ pk.holder.type # last'.T)
                    => last'.kind = "mismatch"
              /\ (isValid(pk) /\ pk.holder.type = last'.T)
                    => last'.kind = "value" /\ last'.value = pk.holder.value]_vars

\* a get with the wrong type on a valid packet
C9_Witness ==
    /\ last.op = "get"
    /\ last.kind = "mismatch"
    /\ isValid(slot[last.src])

\* C10: a write of a packet for which isValid() is false leaves the port
\* unchanged, and no port queue ever holds such a packet.
C10_InvalidNeverQueued ==
    [][/\ (last'.op = "write" /\ ~isValid(slot[last'.src])) => port' = port
       /\ \A i \in 1..Len(port'.dataQueue) : isValid(port'.dataQueue[i])]_vars

\* what Port::read does to port p: an empty port yields an invalid packet
\* and stays as it is; otherwise the front packet comes out, the size drops
\* by one and latestTimestamp stays
ReadContract(p) ==
    LET r == read(p)
    IN  IF size(p) = 0
        THEN /\ ~isValid(r.packet)
             /\ r.port = p
        ELSE /\ r.packet = Head(p.dataQueue)
             /\ size(r.port) = size(p) - 1
             /\ r.port.dataQueue = Tail(p.dataQueue)
             /\ r.port.latestTimestamp = p.latestTimestamp

IsOutputReadStep == last'.op = "readFromOutputPort"

ContextOf(s, i) == getCCByCalculatorName(s, s.calculators[i].kind.name)

IsConnectStep == last'.op = "connectCalculators" /\ last'.kind = "none"

\* the bindings connectCalculators is to establish on scheduler s
Connected(s) ==
    LET n == Len(s.calculators)
    IN  /\ n >= 1
        /\ \A i \in 1..(n - 1) :
              \A t \in DOMAIN ContextOf(s, i).outputs :
                 /\ t \in DOMAIN ContextOf(s, i + 1).inputs
                 /\ ContextOf(s, i + 1).inputs[t].id =
                        ContextOf(s, i).outputs[t].id
        /\ kTagInput \in DOMAIN ContextOf(s, 1).inputs
        /\ ContextOf(s, 1).inputs[kTagInput].id = InputPortId
        /\ kTagOutput \in DOMAIN ContextOf(s, n).outputs
        /\ ContextOf(s, n).outputs[kTagOutput].id = OutputPortId

\* C11: after connectCalculators() succeeds, every output port of c(i) is,
\* as the same object, the input port of c(i+1) under the same tag, c0's
\* input under kTagInput is inputPort and c(n-1)'s output under kTagOutput
\* is outputPort, whatever the calculator had registered there.
C11_ConnectBinds == [][IsConnectStep => Connected(sched')]_vars

\* connectCalculators has installed, in every context, an input under each
\* output tag of the calculator before it, kTagInput in the first context
\* and kTagOutput in the last
Bound(s) ==
    LET n == Len(s.calculators)
    IN  /\ n >= 1
        /\ \A i \in 1..(n - 1) :
              \A t \in DOMAIN ContextOf(s, i).outputs :
                 t \in DOMAIN ContextOf(s, i + 1).inputs
        /\ kTagInput \in DOMAIN ContextOf(s, 1).inputs
        /\ kTagOutput \in DOMAIN ContextOf(s, n).outputs

\* a visit that completed without raising
IsVisitStep == last'.op = "visit" /\ last'.kind = "none" /\ ~aborted'

\* what the visit taken from the current state does, when no undefined
\* behaviour is involved
ThisVisit ==
    process(sched.calculators[sched.current_index + 1],
            ContextOf(sched, sched.current_index + 1), heap, "wrapped", "stale")

\* C12: in a connected pipeline a packet that c(i) writes and its output
\* port accepts under tag t is at once in c(i+1)'s input port under t, with
\* the same payload and timestamp, and it is what the next read of that port
\* by c(i+1) returns if nothing older is queued ahead of it.
C12_SharedPortVisible ==
    [][ LET i   == sched.current_index + 1
            t   == sched.calculators[i].kind.outTag
            nxt == ContextOf(sched', i + 1)
        IN  (/\ IsVisitStep
             /\ Bound(sched)
             /\ i < Len(sched.calculators)
             /\ ThisVisit.accepted)
            => /\ t \in DOMAIN nxt.inputs
               /\ LET shared == heap'[nxt.inputs[t].id].port
                  IN  /\ size(shared) >= 1
                      /\ shared.dataQueue[size(shared)] = ThisVisit.packet
                      /\ size(shared) = 1 =>
                            read(shared).packet = ThisVisit.packet
      ]_vars

\* every calculator reads the tag the one before it writes, the first reads
\* kTagInput and the last writes kTagOutput
Chain(s) ==
    LET n == Len(s.calculators)
    IN  /\ n >= 1
        /\ s.calculators[1].kind.inTag = kTagInput
        /\ s.calculators[n].kind.outTag = kTagOutput
        /\ \A i \in 1..(n - 1) :
              s.calculators[i].kind.outTag = s.calculators[i + 1].kind.inTag

\* a connected pipeline of calculators that pass packets on, set up and in use
Piped ==
    /\ Chain(sched)
    /\ Connected(sched)
    /\ last.op \notin SetupOps
    /\ ~sched.callbackRead /\ ~sched.callbackWrite

\* timestamps readFromOutputPort has yielded, followed by those it yields
\* next
Delivered == returned \o Timestamps(heap[OutputPortId].port.dataQueue)

IsPrefix(a, b) == Len(a) <= Len(b) /\ a = SubSeq(b, 1, Len(a))

\* C13: in a connected pipeline of pass-through calculators without
\* callbacks, the packets written with writeToInputPort (no more than a port
\* holds) come out of readFromOutputPort in the order written, each once,
\* and with run() called again and again all of them eventually do.
C13_PipelineDelivers ==
    /\ [](Piped => IsPrefix(Delivered, accepted))
    /\ [](Piped => <>(Delivered = accepted))

\* two packets were written, both have crossed the pipeline and have been
\* read from the output port in the order written
C13_Witness ==
    /\ Piped
    /\ Len(accepted) = 2
    /\ returned = accepted

\* a step that is a connectCalculators() or a run() call
IsConnectOrRunStep == last'.op \in {"connectCalculators", "run"}

\* C14: with no calculator registered, connectCalculators() and run() fail
\* with the empty-pipeline error; no callback is called and nothing of the
\* scheduler changes.
C14_EmptyPipelineFails ==
    [][(IsConnectOrRunStep /\ sched.calculators = <<>>) =>
          /\ last'.kind = "CalculatorException"
          /\ UNCHANGED <<sched, heap, pc, frame, clock, lastTimestamp,
                         nConstructed, slot, aborted>>]_vars

\* run() has failed on an empty pipeline that has both callbacks registered
C14_Witness ==
    /\ last.op = "run"
    /\ last.kind = "CalculatorException"
    /\ sched.calculators = <<>>
    /\ sched.callbackRead /\ sched.callbackWrite

\* the cursor value the next visit must have, given the latest completed one
NextInOrder(s, f) ==
    IF f.prev = -1 THEN 0 ELSE (f.prev + 1) % Len(s.calculators)

\* C15: calculators are visited in registration order, cyclically, and the
\* cursor is kept from one run() to the next: each completed visit is to the
\* calculator after the one visited before it, wherever run() calls begin
\* and end, and only a completed visit moves the cursor, by one.
C15_CyclicOrder ==
    /\ [][IsVisitStep => sched.current_index = NextInOrder(sched, frame)]_vars
    /\ [][sched'.current_index # sched.current_index =>
             /\ last'.op = "after"
             /\ pc = "after"
             /\ frame.prev = sched.current_index
             /\ sched'.current_index =
                    (sched.current_index + 1) % Len(sched.calculators)]_vars

\* the first visit of a run() call is to the second calculator, the call
\* before having ended after its visit to the first
C15_Witness ==
    /\ last.op = "visit" /\ last.kind = "none" /\ ~aborted
    /\ Len(sched.calculators) = 2
    /\ frame.visits = <<1>>

\* the calculator at the cursor has a visit of this run() call on record
VisitedInFrame == \E k \in 1..Len(frame.visits) :
                     frame.visits[k] = sched.current_index

\* C16 as stated: within one run() call every calculator is visited at most
\* once.
C16_AtMostOnce == [][IsVisitStep => ~VisitedInFrame]_vars

\* C16: within one run() call no calculator is visited a second time before
\* every calculator has been visited once; a further visit happens only
\* when the loop has wrapped round the whole pipeline within the budget.
C16_OncePerRound ==
    [][(IsVisitStep /\ Len(frame.visits) < Len(sched.calculators)) =>
          ~VisitedInFrame]_vars

\* the third visit of one run() call over two calculators, which is the
\* second visit to the first of them
C16_Witness ==
    /\ last.op = "visit" /\ last.kind = "none" /\ ~aborted
    /\ pc = "after"
    /\ Len(sched.calculators) = 2
    /\ frame.visits = <<0, 1>>
    /\ sched.current_index = 0

\* a step in which run() returns to its caller without an exception
IsReturnStep == pc # "idle" /\ pc' = "idle" /\ last'.op \in {"after", "return"}

\* the end of an iteration of the loop of run()
IsAfterStep == pc = "after" /\ last'.op = "after"

\* time from the frame start to the clock reading taken after the visit
ElapsedAtEnd == getCurrentTime(ClockReadings[clock']) - sched.startTimeFrame

\* C17: run() returns only after at least one visit; it returns at the end
\* of the first iteration whose visit ended with at least the frame budget
\* elapsed since the frame start, so after a single visit if that one
\* overran; and while running it never returns with less than the budget
\* elapsed.
C17_BudgetYield ==
    /\ [][IsAfterStep =>
             (pc' = "idle" <=> ElapsedAtEnd >= FRAME_RATE_MS)]_vars
    /\ [][IsReturnStep =>
             /\ frame.visits # <<>>
             /\ sched'.running =>
                   (IsAfterStep /\ ElapsedAtEnd >= FRAME_RATE_MS)]_vars

\* the first run() call over two calculators has returned, still running,
\* after its only visit, which ended past the budget
C17_Witness ==
    /\ pc = "idle" /\ last.op = "after" /\ ~aborted
    /\ sched.running
    /\ Len(sched.calculators) = 2
    /\ frame.prev = 0 /\ sched.current_index = 1
    /\ getCurrentTime(ClockReadings[clock]) - sched.startTimeFrame
           >= FRAME_RATE_MS

\* a step in which the visit of the calculator at the cursor throws and the
\* exception leaves run()
IsRaiseStep ==
    /\ pc = "visit" /\ pc' = "idle"
    /\ last'.op = "visit"
    /\ last'.kind \in {"CalculatorException", "PacketException"}

C19_StopEndsFrame ==
    [][(~sched.running /\ pc \in {"visit", "after", "loop"}
            /\ last'.op # "stop") =>
          /\ pc = "visit" => last'.op = "visit" /\ pc' \in {"visit", "after", "idle"}
          /\ pc = "after" => last'.op = "after" /\ pc' \in {"idle", "loop"}
          /\ pc = "loop" => last'.op = "return" /\ pc' = "idle"]_vars

\* run() has returned because of a stop() called during the visit, with the
\* budget not consumed
C19_Witness ==
    /\ pc = "idle" /\ last.op = "return" /\ ~aborted
    /\ ~sched.running
    /\ ~sched.callbackRead /\ ~sched.callbackWrite
    /\ getCurrentTime(ClockReadings[clock]) - sched.startTimeFrame
           < FRAME_RATE_MS

\* run() has been called and stop() has been called since: startTimeFrame is
\* 0 until the first run(), and only stop() clears running
Stopped == ~sched.running /\ sched.startTimeFrame # 0

\* C20: stopped is terminal; once stop() has been called after a run(), no
\* later operation sets the scheduler running again or visits a calculator.
C20_StoppedTerminal ==
    [][(Stopped /\ pc = "idle") =>
          /\ ~sched'.running
          /\ pc' = "idle"]_vars

\* a step that is a call v.addInputPort / v.addOutputPort; last' holds its
\* arguments
IsAddPortStep == last'.op = "addPort"

\* C21: addInputPort / addOutputPort installs the port only when the map
\* has no port under the tag, and then the installed port holds the queue
\* and the latest timestamp of the port handed in; when the map has one,
\* the call changes nothing: the same port object stays under the tag with
\* its queue and its latest timestamp, so repeating the call has no effect.
C21_AddKeepsExisting ==
    [][IsAddPortStep =>
          LET v   == last'.dst
              dir == last'.T
              tag == last'.src
              src == heap[last'.value].port
          IN  IF tag \in DOMAIN cc[v][dir]
              THEN cc' = cc /\ heap' = heap
              ELSE /\ DOMAIN cc'[v][dir] = DOMAIN cc[v][dir] \cup {tag}
                   /\ \A t \in DOMAIN cc[v][dir] :
                         cc'[v][dir][t] = cc[v][dir][t]
                   /\ cc'[v][dir][tag] = Handle(Len(heap) + 1, TRUE)
                   /\ Len(heap') = Len(heap) + 1
                   /\ heap'[Len(heap) + 1].alive
                   /\ heap'[Len(heap) + 1].port.dataQueue = src.dataQueue
                   /\ heap'[Len(heap) + 1].port.latestTimestamp
                          = src.latestTimestamp
                   /\ \A i \in 1..Len(heap) :
                         i # last'.value => heap'[i] = heap[i]]_vars

\* an add call has just been made under a tag whose port holds a packet,
\* with a port that holds another packet, and has installed nothing
C21_Witness ==
    /\ last.op = "addPort"
    /\ "cc" \in DOMAIN cc
    /\ last.src \in DOMAIN cc["cc"][last.T]
    /\ cc["cc"][last.T][last.src].owns
    /\ size(heap[cc["cc"][last.T][last.src].id].port) = 1
    /\ size(heap[last.value].port) = 1
    /\ heap[cc["cc"][last.T][last.src].id].port.dataQueue
           # heap[last.value].port.dataQueue

\* a step that is a call v.bindInputPort / v.bindOutputPort; last' holds its
\* arguments
IsBindPortStep == last'.op = "bindPort"

\* Port object id is owned by an entry of context c
OwnedBy(c, id) ==
    \E dir \in Dirs : \E t \in DOMAIN c[dir] : c[dir][t] = Handle(id, TRUE)

IsGetPortStep == last'.op = "getPort"

\* C23: getInputPort / getOutputPort returns the port installed under the
\* tag, and throws CalculatorException when the map has none; either way
\* the lookup inserts nothing and changes no port.
C23_GetPort ==
    [][IsGetPortStep =>
          LET map == cc[last'.dst][last'.T]
              tag == last'.src
          IN  /\ IF tag \in DOMAIN map
                 THEN last'.kind = "none" /\ last'.value = map[tag].id
                 ELSE last'.kind = "CalculatorException"
              /\ cc' = cc
              /\ heap' = heap]_vars

\* a lookup under a tag without a port has just failed in a map that has a
\* port, holding a packet, under the other tag
C23_Witness ==
    /\ last.op = "getPort"
    /\ last.kind = "CalculatorException"
    /\ "cc" \in DOMAIN cc
    /\ last.src \notin DOMAIN cc["cc"][last.T]
    /\ \E t \in DOMAIN cc["cc"][last.T] :
          size(heap[cc["cc"][last.T][t].id].port) = 1

IsGetSidePacketStep == last'.op = "getSidePacket" /\ last' # last

\* C24: getSidePacket(tag) on any context, one constructed without a
\* side-packet map included, returns the packet the map holds under tag
\* (same payload type and timestamp) when the context has the map and the
\* map has the tag, and otherwise raises CalculatorException; the call never
\* ends the program
C24_SideLookup ==
    [][IsGetSidePacketStep =>
          LET ctx == cc[last'.dst]
              tag == last'.src
          IN  /\ ~aborted'
              /\ IF ctx.side = "shared" /\ tag \in DOMAIN side
                 THEN /\ last'.kind = "none"
                      /\ last'.T = side[tag].holder.type
                      /\ last'.value = side[tag].timestamp
                 ELSE last'.kind = "CalculatorException"]_vars

\* the contexts that hold the side-packet map: the client's and the
\* scheduler's
SharingClient == {v \in DOMAIN cc : cc[v].side = "shared"}
SharingCalcs  == {n \in DOMAIN sched.contexts :
                     sched.contexts[n].side = "shared"}

\* C25: the side-packet map is changed by the client's own assignments only:
\* no step of registerCalculator, connectCalculators, run,
\* writeToInputPort, readFromOutputPort, stop or getSidePacket adds, removes
\* or changes an entry; and every context constructed on the map returns,
\* for a tag of the map, the packet of the map (same payload type and
\* timestamp), whichever context is asked.
C25_SideShared ==
    [][/\ side' # side => last'.op = "setSidePacket"
       /\ (IsGetSidePacketStep /\ last'.dst \in SharingClient
              /\ last'.src \in DOMAIN side) =>
             /\ last'.kind = "none"
             /\ last'.T = side[last'.src].holder.type
             /\ last'.value = side[last'.src].timestamp
             /\ \A n \in SharingCalcs :
                   getSidePacket(sched'.contexts[n], side', last'.src,
                                 "notfound").packet = side[last'.src]]_vars

\* cc2, constructed on the map the scheduler's calculators were registered
\* with, is asked for a tag of the map after a run() call has visited the
\* pixel calculator and then the dither calculator, which read the same
\* entry and raised for the next one
C25_Witness ==
    /\ last.op = "getSidePacket"
    /\ last.dst = "cc2"
    /\ last.kind = "none"
    /\ SharingClient = {"cc", "cc2"}
    /\ SharingCalcs = {"PixelShapeCalculator", "DitherCalculator"}
    /\ kRedLevels \in DOMAIN side
    /\ last.src = kRedLevels
    /\ frame.prev = 0
    /\ sched.current_index = 1
    /\ sched.calculators[2].kind = DitherCalculator

\* C26: a visit that runs to its end calls enter, then process, then close,
\* all three on the calculator at the cursor, with the context that this
\* calculator made in registerContext and with the delta computed at the
\* start of run(), and calls no other calculator.
C26_OwnLifecycle ==
    [][IsVisitStep =>
          LET i == sched.current_index + 1
              c == last'.calls
          IN  /\ Len(c) = 3
              /\ <<c[1].fn, c[2].fn, c[3].fn>> = <<"enter", "process", "close">>
              /\ \A k \in 1..3 : /\ c[k].calc = i
                                  /\ c[k].ctx = i
                                  /\ c[k].delta = frame.delta]_vars

\* the external input port before and after a step
InputBefore == heap[InputPortId].port
InputAfter  == heap'[InputPortId].port

IsInputStep == pc = "loop" /\ pc' = "visit"

\* C27: every iteration of run() starts with the input step and only then
\* visits the calculator; with an input callback registered the step offers
\* the callback's packet to the external input port by Port::write: a packet
\* newer than the port's latest is appended, after the oldest has been
\* dropped from a full queue, and any other packet leaves the port as it
\* was; with no callback registered the external input port is changed only
\* by writeToInputPort and by reads of the first calculator.
C27_InputCallback ==
    [][/\ (last'.op = "visit" /\ last' # last) => pc = "visit"
       /\ pc' = "visit" /\ pc # "visit" => pc = "loop" /\ last'.op = "input"
       /\ (IsInputStep /\ sched.callbackRead /\ ~aborted') =>
             IF last'.accepted
             THEN /\ InputAfter.latestTimestamp > InputBefore.latestTimestamp
                  /\ last'.evicted =
                        (size(InputBefore) >= InputBefore.MAX_QUEUE_SIZE)
                  /\ LET q == IF last'.evicted
                              THEN Tail(InputBefore.dataQueue)
                              ELSE InputBefore.dataQueue
                     IN
                        /\ Len(InputAfter.dataQueue) = Len(q) + 1
                        /\ SubSeq(InputAfter.dataQueue, 1, Len(q)) = q
                        /\ InputAfter.dataQueue[Len(q) + 1].timestamp =
                              InputAfter.latestTimestamp
             ELSE InputAfter = InputBefore
       /\ (~sched.callbackRead /\ InputAfter # InputBefore) =>
             \/ last'.op = "writeToInputPort"
             \/ /\ last'.op = "visit"
                /\ sched.current_index = 0
                /\ InputAfter.dataQueue = Tail(InputBefore.dataQueue)
                /\ InputAfter.latestTimestamp = InputBefore.latestTimestamp]_vars

\* the external output port before and after a step
OutputBefore == heap[OutputPortId].port
OutputAfter  == heap'[OutputPortId].port

\* the end of an iteration: the step after the visit
IsOutputStep == pc = "after" /\ pc' # "after"

\* what C28 says of the output step and of the visit before it: the output
\* step follows a visit whose last call was close; with an output callback
\* registered it hands the callback the packet of one read of the external
\* output port, valid or not, and the port is left as that read leaves it,
\* so at most one packet shorter; without one the port is untouched; the
\* visit itself takes nothing from the external output port
OutputStepReads ==
    /\ (pc' = "after" /\ pc # "after") =>
          /\ pc = "visit" /\ last'.op = "visit" /\ last'.kind = "none"
          /\ Len(last'.calls) = 3 /\ last'.calls[3].fn = "close"
    /\ IsOutputStep =>
          /\ last'.op = "after"
          /\ IF sched.callbackWrite
             THEN /\ OutputAfter = read(OutputBefore).port
                  /\ last'.kind = IF isValid(read(OutputBefore).packet)
                                  THEN "valid" ELSE "invalid"
                  /\ size(OutputAfter) >= size(OutputBefore) - 1
             ELSE /\ OutputAfter = OutputBefore
                  /\ last'.kind = "nocallback"
    /\ (pc = "visit" /\ last'.op = "visit") =>
          size(OutputAfter) >= size(OutputBefore)

\* C28 as stated: every iteration, once begun, reaches the output callback.
C28_EveryIteration ==
    [][/\ OutputStepReads
       /\ (pc = "visit" /\ pc' # "visit") => pc' = "after"]_vars

\* C28: an iteration whose enter, process and close return invokes the
\* output callback, if one is registered, exactly once, after close, with
\* the packet of one read of the external output port, valid or invalid,
\* which removes at most one packet; an iteration in which a call raises
\* leaves run() without invoking the callback.
C28_OutputCallback ==
    [][/\ OutputStepReads
       /\ (pc = "visit" /\ pc' # "visit") =>
             \/ pc' = "after"
             \/ /\ pc' = "idle"
                /\ last'.op = "visit"
                /\ last'.kind \in {"CalculatorException", "PacketException"}
                /\ OutputAfter = OutputBefore]_vars

\* the output callback has just been handed a valid packet, and another
\* iteration of the same run() call follows
C28_Witness ==
    /\ last.op = "after"
    /\ last.kind = "valid"
    /\ sched.callbackWrite
    /\ pc = "loop"

RECURSIVE MaxOf(_)
\* the largest element of a sequence of timestamps, 0 for the empty one
\* (the latestTimestamp of a new port)
MaxOf(q) == IF q = <<>> THEN 0
            ELSE IF Head(q) > MaxOf(Tail(q)) THEN Head(q) ELSE MaxOf(Tail(q))

\* C29: on a port used through write and read only, latestTimestamp is the
\* largest timestamp the port has accepted (0 while it has accepted none);
\* no step decreases it and read leaves it as it was.
C29_LatestIsMax ==
    [][/\ port.latestTimestamp = MaxOf(accepted)
       /\ port'.latestTimestamp = MaxOf(accepted')
       /\ port'.latestTimestamp >= port.latestTimestamp
       /\ last'.op = "read" => port'.latestTimestamp = port.latestTimestamp]_vars

\* a read has just emptied a port that accepted two packets: the latest
\* timestamp is still that of the second
C29_Witness ==
    /\ last.op = "read"
    /\ last.kind = "value"
    /\ Len(accepted) = 2
    /\ port.dataQueue = <<>>
    /\ port.latestTimestamp = accepted[2]
    /\ accepted[2] > accepted[1]

\* a write of a packet the port does not accept
IsRejectedWrite ==
    /\ last'.op = "write"
    /\ slot[last'.src].timestamp <= port.latestTimestamp

\* C30: a write of a packet whose timestamp is not greater than
\* latestTimestamp raises nothing and does not end the program; the port's
\* queue, its size and its latestTimestamp are as before, and nothing is
\* evicted, also when the queue is at its capacity.
C30_RejectedWrite ==
    [][IsRejectedWrite =>
          /\ ~aborted'
          /\ ~last'.accepted
          /\ ~last'.evicted
          /\ last'.kind = "none"
          /\ port' = port
          /\ evictions' = evictions
          /\ accepted' = accepted]_vars

\* a packet carrying a timestamp, but not a newer one, has just been
\* refused by a port whose queue is at capacity
C30_Witness ==
    /\ last.op = "write"
    /\ ~last.accepted
    /\ slot[last.src].timestamp # kInvalidTimestamp
    /\ slot[last.src].timestamp <= port.latestTimestamp
    /\ port.MAX_QUEUE_SIZE > 0
    /\ size(port) = port.MAX_QUEUE_SIZE

\* C31: when the visit of the calculator at the cursor raises, run() ends
\* with the cursor where it was; and the cursor moves only at the end of a
\* completed iteration, so nothing between that failure and the first visit
\* of the next run() call moves it: that visit is of the same calculator.
C31_CursorStays ==
    [][/\ IsRaiseStep =>
             /\ sched'.current_index = sched.current_index
             /\ Len(last'.calls) >= 1
             /\ last'.calls[Len(last'.calls)].calc = sched'.current_index + 1
       /\ sched'.current_index # sched.current_index => IsAfterStep
       /\ (last'.op = "visit" /\ pc = "visit") =>
             last'.calls[1].calc = sched.current_index + 1]_vars

\* the second calculator has raised in a run() call that had completed the
\* visit of the first one: run() is over and the cursor is on the second
C31_Witness ==
    /\ pc = "idle"
    /\ last.op = "visit"
    /\ last.kind \in {"CalculatorException", "PacketException"}
    /\ frame.prev = 0
    /\ sched.current_index = 1
    /\ last.calls[1].calc = 2

\* a run() call that got past the test of calculators.empty()
IsRunStep == pc = "idle" /\ pc' = "loop" /\ last'.op = "run"

\* the clock, in microseconds, when the client started
ProgramStart == getCurrentTime(ClockReadings[1])

\* C32 as stated: the delta of a frame, in microseconds before the division,
\* is the time from the entry of the previous run() call to the entry of
\* this one, hence never more than the time the program has been running,
\* and every lifecycle call of the frame is handed that value.
C32_DeltaBetweenEntries ==
    [][/\ IsRunStep =>
             /\ frame'.delta = last'.value
             /\ sched.startTimeFrame # 0 =>
                   \E c \in ClockIdx :
                      /\ clock <= c /\ c <= clock'
                      /\ last'.value = getCurrentTime(ClockReadings[c])
                                            - sched.startTimeFrame
             /\ last'.value <= getCurrentTime(ClockReadings[clock'])
                                   - ProgramStart
       /\ (last'.op = "visit" /\ pc = "visit") =>
             \A k \in 1..Len(last'.calls) :
                last'.calls[k].delta = frame.delta]_vars

\* the clock reading r in microseconds
Micros(r) == r[1] * kMicrosPerSec + r[2] \div kNanosPerMicro

\* C33 as stated: the timestamp a constructor draws is the clock reading in
\* microseconds (seconds * 1,000,000 + nanoseconds / 1000) when that is
\* greater than lastTimestamp, and lastTimestamp + 1 otherwise; the value
\* drawn becomes lastTimestamp.
C33_MicrosecondTimestamp ==
    [][IsConstructStep =>
          LET micros == Micros(ClockReadings[clock'])
              ts     == slot'[last'.dst].timestamp
          IN  /\ ts = IF micros > lastTimestamp THEN micros
                      ELSE lastTimestamp + 1
              /\ lastTimestamp' = ts]_vars

\* the Port the calculator at the cursor reads its input from, 0 if its
\* context has none under the tag
DesignatedInput ==
    LET calc == sched.calculators[sched.current_index + 1]
        ins  == getCCByCalculatorName(sched, calc.kind.name).inputs
    IN  IF calc.kind.inTag \in DOMAIN ins THEN ins[calc.kind.inTag].id ELSE 0

\* C34 as stated: a visit of an example calculator whose designated input
\* port is empty raises nothing and leaves every port as it was.
C34_NoOpTick ==
    [][(pc = "visit" /\ last'.op = "visit"
          /\ IsExample(sched.calculators[sched.current_index + 1].kind)
          /\ DesignatedInput # 0
          /\ size(heap[DesignatedInput].port) = 0) =>
          /\ last'.kind = "none"
          /\ ~aborted'
          /\ heap' = heap]_vars

\* C35 as stated: no timestamp is queued twice; a packet the port accepts is
\* in its queue when write returns and no longer with the caller; and a
\* queued packet leaves the queue only as the front packet, either returned
\* by a read or dropped, one for each write, by a write that found the
\* queue at capacity.
C35_NoLossNoDuplicate ==
    [][/\ \A i, j \in 1..Len(port'.dataQueue) :
             i # j => port'.dataQueue[i].timestamp # port'.dataQueue[j].timestamp
       /\ (last'.op = "write" /\ last'.accepted /\ ~aborted') =>
             /\ last'.evicted => size(port) >= 1
             /\ LET kept == IF last'.evicted THEN Tail(port.dataQueue)
                            ELSE port.dataQueue
                IN  /\ size(port') = Len(kept) + 1
                    /\ SubSeq(port'.dataQueue, 1, Len(kept)) = kept
                    /\ port'.dataQueue[size(port')].timestamp =
                          slot[last'.src].timestamp
             /\ slot'[last'.src].timestamp # slot[last'.src].timestamp
       /\ (last'.op = "write" /\ ~last'.accepted) =>
             port'.dataQueue = port.dataQueue
       /\ (last'.op = "read" /\ size(port) >= 1) =>
             /\ port'.dataQueue = Tail(port.dataQueue)
             /\ slot'[last'.dst] = Head(port.dataQueue)
       /\ last'.op \notin {"write", "read"} =>
             port'.dataQueue = port.dataQueue]_vars

\* C37 as stated: a port installed with addInputPort or addOutputPort
\* enforces the capacity N its source port was constructed with: it never
\* holds more than N packets, and a write it accepts while holding N or
\* more drops the oldest.
C37_InstalledCapacity ==
    [][/\ \A i \in 2..Len(heap') :
             size(heap'[i].port) <= heap'[LocalPort].port.MAX_QUEUE_SIZE
       /\ (last'.op = "installedWrite" /\ last'.accepted) =>
             (size(heap[last'.value].port) >= heap[LocalPort].port.MAX_QUEUE_SIZE
                <=> last'.evicted)]_vars

\* C36 as stated: the scheduler stores as many contexts as it has
\* calculators, and every call run() makes on a calculator hands it the
\* context that this calculator's own registerContext call returned.
C36_OwnContext ==
    [][/\ Cardinality(DOMAIN sched'.contexts) = Len(sched'.calculators)
       /\ (pc = "visit" /\ last'.op = "visit") =>
             \A k \in 1..Len(last'.calls) :
                last'.calls[k].ctx = last'.calls[k].calc]_vars

\* C38 as stated: whenever write reaches its eviction step (the packet's
\* timestamp is greater than latestTimestamp and the queue holds
\* MAX_QUEUE_SIZE packets or more), the queue holds at least one packet,
\* so that pop_front removes a packet and the call returns.
C38_EvictsFromNonEmpty ==
    [][(/\ last'.op = "write"
        /\ slot[last'.src].timestamp > port.latestTimestamp
        /\ size(port) >= port.MAX_QUEUE_SIZE) =>
          /\ size(port) >= 1
          /\ last'.evicted
          /\ ~aborted']_vars

\* C39 as stated: when connectCalculators has returned, the external output
\* port is an output of the last calculator's context and of no other
\* calculator's, it is an input of no calculator's context, and the
\* external input port is an input of the first calculator's context and
\* of no other calculator's.
C39_ExternalPorts ==
    [][IsConnectStep =>
          \A i \in 1..Len(sched'.calculators) :
             LET ctx == ContextOf(sched', i)
             IN  /\ (\E t \in DOMAIN ctx.outputs : ctx.outputs[t].id = OutputPortId)
                       <=> i = Len(sched'.calculators)
                 /\ \A t \in DOMAIN ctx.inputs : ctx.inputs[t].id # OutputPortId
                 /\ (\E t \in DOMAIN ctx.inputs : ctx.inputs[t].id = InputPortId)
                       <=> i = 1]_vars

\* C40 as stated: a connectCalculators call that follows a connectCalculators
\* call that returned, with no operation in between, changes no binding of
\* any context and no port.
C40_ConnectIdempotent ==
    [][(/\ last.op = "connectCalculators" /\ last.kind = "none"
        /\ IsConnectStep) =>
          /\ sched'.contexts = sched.contexts
          /\ heap' = heap]_vars

====
